---------------------------- MODULE Spec2Model ----------------------------
(***************************************************************************)
(* The API notes writer (APINotesWriter.cpp) as a state machine: the       *)
(* writer's tables are the state, every public mutator and writeToStream   *)
(* is an action, and the bytes of every on-disk hash table entry are       *)
(* computed the way the *TableInfo classes emit them.  The reader          *)
(* (APINotesReader.h declares it; its implementation is not part of the    *)
(* sources) decodes those bytes following the format description.          *)
(*                                                                         *)
(* Strings are sequences of bytes.  assert() is modelled as in a build     *)
(* with assertions enabled: a failing assertion ends the process at the    *)
(* point of the assertion (assertFailed names the function).               *)
(***************************************************************************)
EXTENDS Integers, Sequences, FiniteSets, TLC

\* Number of calls into the writer (add*, addModuleOptions, writeToStream)
\* one behaviour makes.
MaxCalls == 3

-----------------------------------------------------------------------------
(* Byte-level helpers *)

EmptyMap == [x \in {} |-> 0]

Range(f) == {f[x] : x \in DOMAIN f}

B2N(b) == IF b THEN 1 ELSE 0

\* endian::Writer<little>::write<T>: the low `width` bytes of n, lowest first
RECURSIVE LEBytes(_, _)
LEBytes(n, width) ==
  IF width = 0 THEN <<>> ELSE <<n % 256>> \o LEBytes(n \div 256, width - 1)

LE8(n) == LEBytes(n, 1)

LE16(n) == LEBytes(n, 2)

LE32(n) == LEBytes(n, 4)

LE64(n) == LEBytes(n, 8)

\* The identifiers and strings the behaviours use.
EmptyStr == <<>>

StrA == <<65>>

StrB == <<66>>

StrBad == <<98, 97, 100>>

-----------------------------------------------------------------------------
(* Entity infos (clang/APINotes/Types.h), with the fields the writer reads. *)
(* An Optional<NullabilityKind> is <<>> (no value) or <<k>>.                *)

CommonEntityInfo(msg, unavailable, unavailableInSwift, swiftPrivate, swiftName) ==
  [UnavailableMsg |-> msg, Unavailable |-> unavailable,
   UnavailableInSwift |-> unavailableInSwift, SwiftPrivate |-> swiftPrivate,
   SwiftName |-> swiftName]

CommonTypeInfo(entity, swiftBridge, nsErrorDomain) ==
  [Entity |-> entity, SwiftBridge |-> swiftBridge,
   NSErrorDomain |-> nsErrorDomain]

ObjCContextInfo(type, defaultNullability, hasDesignatedInits) ==
  [Type |-> type, DefaultNullability |-> defaultNullability,
   HasDesignatedInits |-> hasDesignatedInits]

VariableInfo(entity, nullability) ==
  [Entity |-> entity, Nullability |-> nullability]

ParamInfo(noEscape, nullability) ==
  [NoEscape |-> noEscape, Nullability |-> nullability]

FunctionInfo(entity, audited, numAdjusted, payload, params) ==
  [Entity |-> entity, NullabilityAudited |-> audited,
   NumAdjustedNullable |-> numAdjusted, NullabilityPayload |-> payload,
   Params |-> params]

ObjCMethodInfo(function, designatedInit, factoryAsInit, required) ==
  [Function |-> function, DesignatedInit |-> designatedInit,
   FactoryAsInit |-> factoryAsInit, Required |-> required]

ObjCSelectorRef(numPieces, identifiers) ==
  [NumPieces |-> numPieces, Identifiers |-> identifiers]

-----------------------------------------------------------------------------
(* The inputs the callers pass. *)

PlainEntity == CommonEntityInfo(EmptyStr, FALSE, FALSE, FALSE, EmptyStr)

BadEntity == CommonEntityInfo(StrBad, TRUE, FALSE, FALSE, EmptyStr)

PrivateEntity == CommonEntityInfo(EmptyStr, FALSE, TRUE, TRUE, StrB)

EntityInputs == {PlainEntity, BadEntity, PrivateEntity}

TypeInputs ==
  {CommonTypeInfo(PlainEntity, EmptyStr, EmptyStr),
   CommonTypeInfo(BadEntity, StrA, StrB)}

ContextInputs ==
  {ObjCContextInfo(CommonTypeInfo(BadEntity, StrB, EmptyStr), <<>>, FALSE),
   ObjCContextInfo(CommonTypeInfo(PlainEntity, StrA, EmptyStr), <<1>>, TRUE)}

VariableInputs ==
  {VariableInfo(PlainEntity, <<1>>), VariableInfo(PrivateEntity, <<>>)}

FunctionInputs ==
  {FunctionInfo(PlainEntity, FALSE, 0, 0, <<>>),
   FunctionInfo(BadEntity, TRUE, 2, 258,
                <<ParamInfo(TRUE, <<2>>), ParamInfo(FALSE, <<>>)>>)}

MethodPlain ==
  ObjCMethodInfo(FunctionInfo(PlainEntity, FALSE, 0, 0, <<>>),
                 FALSE, FALSE, TRUE)

MethodInit ==
  ObjCMethodInfo(FunctionInfo(PrivateEntity, TRUE, 1, 5,
                              <<ParamInfo(FALSE, <<0>>)>>),
                 TRUE, TRUE, FALSE)

Sel0 == ObjCSelectorRef(0, <<StrA>>)

Sel1 == ObjCSelectorRef(1, <<StrA>>)

Sel2 == ObjCSelectorRef(2, <<StrA, EmptyStr>>)

SelectorInputs == {Sel0, Sel1, Sel2}

\* (selector, isInstanceMethod, info) of the addObjCMethod calls.
MethodInputs ==
  {<<Sel0, TRUE, MethodPlain>>, <<Sel1, TRUE, MethodPlain>>,
   <<Sel1, TRUE, MethodInit>>, <<Sel1, FALSE, MethodPlain>>,
   <<Sel2, FALSE, MethodPlain>>}

ClassNames == {StrA, StrB}

ProtocolNames == {StrA}

PropertyNames == {StrB}

LookupNames == {EmptyStr, StrA, StrB}

\* Context IDs the callers pass to addObjCProperty / addObjCMethod and to
\* the reader's lookups.
ContextIDInputs == {1, 2}

-----------------------------------------------------------------------------
(* The writer's state: the fields of APINotesWriter::Implementation, the   *)
(* stream writeToStream wrote last, and what the callers have seen.        *)

VARIABLES
  IdentifierIDs,            \* StringMap<IdentifierID>
  SelectorIDs,              \* DenseMap<StoredObjCSelector, SelectorID>
  ModuleName,
  SwiftInferImportAsMember,
  ObjCContexts,             \* (identifier ID, is-protocol) -> [id, info]
  ObjCContextNames,         \* context ID -> identifier ID
  ObjCProperties,           \* (context ID, name ID, is-instance) -> info
  ObjCMethods,              \* (context ID, selector ID, is-instance) -> info
  GlobalVariables,
  GlobalFunctions,
  EnumConstants,
  Tags,
  Typedefs,
  os,                       \* what the last writeToStream call wrote
  assertFailed,             \* "" or the function whose assert() failed
  calls,                    \* calls made so far
  idLog,                    \* <<string, ID>> pairs getIdentifier returned
  selLog,                   \* <<selector ref, ID>> pairs getSelector returned
  ctxLog,                   \* <<name, is-protocol, ID>> addObjCClass/Protocol returned
  internOrder               \* the distinct non-empty strings, first seen first

vars ==
  <<IdentifierIDs, SelectorIDs, ModuleName, SwiftInferImportAsMember,
    ObjCContexts, ObjCContextNames, ObjCProperties, ObjCMethods,
    GlobalVariables, GlobalFunctions, EnumConstants, Tags, Typedefs,
    os, assertFailed, calls, idLog, selLog, ctxLog, internOrder>>

tables ==
  <<IdentifierIDs, SelectorIDs, ModuleName, SwiftInferImportAsMember,
    ObjCContexts, ObjCContextNames, ObjCProperties, ObjCMethods,
    GlobalVariables, GlobalFunctions, EnumConstants, Tags, Typedefs>>

\* InMemoryOutputFileSystem (clang/Basic/InMemoryOutputFileSystem.h): its
\* three private fields, and the threads that call it.
VARIABLES
  Mu,                       \* llvm::sys::Mutex: 0 when free, else its holder
  TemporaryBuffers,         \* StringMap<SmallVector<char>>: path -> bytes
  OutputFiles,              \* the InMemoryFileSystem: [files, cwd]
  pc,                       \* where each thread is in its call
  inCall,                   \* the call each thread is in
  ret,                      \* what the call of each thread has computed
  ops,                      \* calls each thread has made
  owned,                    \* temporary paths each thread was handed
  fsAssertFailed,           \* "" or the function whose assert() failed
  linear,                   \* the fields had every call run alone, in lock order
  expect                    \* what each call returns had it run alone

fsVars ==
  <<Mu, TemporaryBuffers, OutputFiles, pc, inCall, ret, ops, owned,
    fsAssertFailed, linear, expect>>

\* One item of an on-disk hash table as OnDiskChainedHashTableGenerator::Emit
\* makes the table's info object write it.
VARIABLES
  emitTable,                \* "" or the table the item belongs to
  emitFlags,                \* the entity flags of the item's data, <<>> if none
  emitPrefix,               \* the bytes EmitKeyDataLength wrote
  emitKeyLen,               \* the number of bytes EmitKey wrote
  emitDataLen,              \* the number of bytes EmitData wrote
  emitFlagByte              \* the first byte of the common entity info, -1 if none

emitVars ==
  <<emitTable, emitFlags, emitPrefix, emitKeyLen, emitDataLen, emitFlagByte>>

\* No item emitted yet.
EmitInit ==
  /\ emitTable = ""
  /\ emitFlags = <<>>
  /\ emitPrefix = <<>>
  /\ emitKeyLen = 0
  /\ emitDataLen = 0
  /\ emitFlagByte = -1

\* One SelectorParser and the tokens handed to it.
VARIABLES
  State,                    \* SelectorParser::State
  Name,                     \* the pieces of the symbol name, <<>> before construction
  SelectorLocations,        \* SelectorParser::SelectorLocations
  handled,                  \* what the last handleToken returned
  fed,                      \* the number of tokens handed over; a token's location
  run,                      \* the tokens handed over since State was last None
  parserFault               \* "" or the assertion that failed

parserVars ==
  <<State, Name, SelectorLocations, handled, fed, run, parserFault>>

ParserInit ==
  /\ State = "None"
  /\ Name = <<>>
  /\ SelectorLocations = <<>>
  /\ handled = FALSE
  /\ fed = 0
  /\ run = <<>>
  /\ parserFault = ""

\* One call of findObjCSymbolSelectorPieces, a loop iteration at a time.
VARIABLES
  Tokens,                   \* the token list passed, as far as it was read
  SymbolName,               \* the Name passed
  Kind,                     \* "MessageSend" or "MethodDecl"
  Pieces,                   \* the locations found
  SquareCount,
  ParenCount,
  BraceCount,
  Index,                    \* the loop variable (0-based)
  scanPc,                   \* "idle", "loop" or "done"
  scanResult,               \* the value returned
  scanFault                 \* "" or the out-of-range use that happened

scanVars ==
  <<Tokens, SymbolName, Kind, Pieces, SquareCount, ParenCount, BraceCount,
    Index, scanPc, scanResult, scanFault>>

ScanInit ==
  /\ Tokens = <<>>
  /\ SymbolName = <<>>
  /\ Kind = ""
  /\ Pieces = <<>>
  /\ SquareCount = 0
  /\ ParenCount = 0
  /\ BraceCount = 0
  /\ Index = 0
  /\ scanPc = "idle"
  /\ scanResult = FALSE
  /\ scanFault = ""

Threads == {1, 2}

\* Output paths and directories the threads pass.
Paths == {"a"}

Dirs == {"/", "/d"}

NoCall == [op |-> "", path |-> "", temp |-> <<>>, dir |-> ""]

NoRet == <<>>

\* The constructor: no temporary buffer, an empty InMemoryFileSystem.
FSInit ==
  /\ Mu = 0
  /\ TemporaryBuffers = EmptyMap
  /\ OutputFiles = [files |-> EmptyMap, cwd |-> "/"]
  /\ pc = [t \in Threads |-> "idle"]
  /\ inCall = [t \in Threads |-> NoCall]
  /\ ret = [t \in Threads |-> NoRet]
  /\ ops = [t \in Threads |-> 0]
  /\ owned = [t \in Threads |-> {}]
  /\ fsAssertFailed = ""
  /\ linear = [temps |-> EmptyMap, out |-> [files |-> EmptyMap, cwd |-> "/"]]
  /\ expect = [t \in Threads |-> NoRet]

Init ==
  /\ FSInit
  /\ EmitInit
  /\ ParserInit
  /\ ScanInit
  /\ IdentifierIDs = EmptyMap
  /\ SelectorIDs = EmptyMap
  /\ ModuleName = <<77>>
  /\ SwiftInferImportAsMember = FALSE
  /\ ObjCContexts = EmptyMap
  /\ ObjCContextNames = EmptyMap
  /\ ObjCProperties = EmptyMap
  /\ ObjCMethods = EmptyMap
  /\ GlobalVariables = EmptyMap
  /\ GlobalFunctions = EmptyMap
  /\ EnumConstants = EmptyMap
  /\ Tags = EmptyMap
  /\ Typedefs = EmptyMap
  /\ os = <<>>
  /\ assertFailed = ""
  /\ calls = 0
  /\ idLog = {}
  /\ selLog = {}
  /\ ctxLog = {}
  /\ internOrder = <<>>

-----------------------------------------------------------------------------
(* Interning *)

\* DenseMap / StringMap operator[] assignment: insert or overwrite.
SetKey(map, k, v) ==
  [x \in DOMAIN map \cup {k} |-> IF x = k THEN v ELSE map[x]]

\* getIdentifier without the find: every call inserts under the next ID.
getIdentifierNoLookup(ids, identifier) ==
  IF identifier = EmptyStr
  THEN [id |-> 0, IdentifierIDs |-> ids]
  ELSE [id |-> Cardinality(DOMAIN ids) + 1,
        IdentifierIDs |->
          SetKey(ids, identifier, Cardinality(DOMAIN ids) + 1)]

\* getIdentifier numbering from the table's size, without the + 1.
getIdentifierFromZero(ids, identifier) ==
  IF identifier = EmptyStr
  THEN [id |-> 0, IdentifierIDs |-> ids]
  ELSE IF identifier \in DOMAIN ids
       THEN [id |-> ids[identifier], IdentifierIDs |-> ids]
       ELSE [id |-> Cardinality(DOMAIN ids),
             IdentifierIDs |->
               SetKey(ids, identifier, Cardinality(DOMAIN ids))]

\* getIdentifier handing out the next ID without entering it in the table.
getIdentifierUnrecorded(ids, identifier) ==
  IF identifier = EmptyStr
  THEN [id |-> 0, IdentifierIDs |-> ids]
  ELSE IF identifier \in DOMAIN ids
       THEN [id |-> ids[identifier], IdentifierIDs |-> ids]
       ELSE [id |-> Cardinality(DOMAIN ids) + 1, IdentifierIDs |-> ids]

\* getIdentifier: the ID returned and the table afterwards.
getIdentifier(ids, identifier) ==
  IF identifier = EmptyStr
  THEN [id |-> 0, IdentifierIDs |-> ids]
  ELSE IF identifier \in DOMAIN ids
       THEN [id |-> ids[identifier], IdentifierIDs |-> ids]
       ELSE [id |-> Cardinality(DOMAIN ids) + 1,
             IdentifierIDs |->
               SetKey(ids, identifier, Cardinality(DOMAIN ids) + 1)]

\* The loop of getSelector: getIdentifier on every piece, in order.
RECURSIVE internPieces(_, _)
internPieces(ids, pieces) ==
  IF pieces = <<>>
  THEN [Identifiers |-> <<>>, IdentifierIDs |-> ids]
  ELSE LET r == getIdentifier(ids, Head(pieces))
           rest == internPieces(r.IdentifierIDs, Tail(pieces))
       IN [Identifiers |-> <<r.id>> \o rest.Identifiers,
           IdentifierIDs |-> rest.IdentifierIDs]

\* DenseMapInfo<StoredObjCSelector>::isEqual
StoredObjCSelectorEqual(lhs, rhs) ==
  lhs.NumPieces = rhs.NumPieces /\ lhs.Identifiers = rhs.Identifiers

\* A stored selector whose piece count 0 is made 1.
storedSelectorNormalized(selectorRef, identifiers) ==
  [NumPieces |-> IF selectorRef.NumPieces = 0 THEN 1
                 ELSE selectorRef.NumPieces,
   Identifiers |-> identifiers]

\* The stored selector getSelector builds from a selector reference.
storedSelector(selectorRef, identifiers) ==
  [NumPieces |-> selectorRef.NumPieces, Identifiers |-> identifiers]

\* getSelector finding a stored selector by its identifiers alone.
getSelectorByIdentifiers(ids, sels, selectorRef) ==
  LET p == internPieces(ids, selectorRef.Identifiers)
      selector == storedSelector(selectorRef, p.Identifiers)
      known == {k \in DOMAIN sels : k.Identifiers = selector.Identifiers}
  IN IF known # {}
     THEN [id |-> sels[CHOOSE k \in known : TRUE],
           IdentifierIDs |-> p.IdentifierIDs, SelectorIDs |-> sels]
     ELSE [id |-> Cardinality(DOMAIN sels),
           IdentifierIDs |-> p.IdentifierIDs,
           SelectorIDs |-> SetKey(sels, selector, Cardinality(DOMAIN sels))]

\* getSelector: the ID returned and both tables afterwards.
getSelector(ids, sels, selectorRef) ==
  LET p == internPieces(ids, selectorRef.Identifiers)
      selector == storedSelector(selectorRef, p.Identifiers)
      known == {k \in DOMAIN sels : StoredObjCSelectorEqual(k, selector)}
  IN IF known # {}
     THEN [id |-> sels[CHOOSE k \in known : TRUE],
           IdentifierIDs |-> p.IdentifierIDs, SelectorIDs |-> sels]
     ELSE [id |-> Cardinality(DOMAIN sels),
           IdentifierIDs |-> p.IdentifierIDs,
           SelectorIDs |-> SetKey(sels, selector, Cardinality(DOMAIN sels))]

\* What the callers have seen: the strings in first-seen order.
RECURSIVE Seen(_, _)
Seen(order, names) ==
  IF names = <<>> THEN order
  ELSE Seen(IF Head(names) = EmptyStr \/ Head(names) \in Range(order)
            THEN order ELSE Append(order, Head(names)),
            Tail(names))

-----------------------------------------------------------------------------
(* The mutators of APINotesWriter *)

\* A call can be made: the process is alive.
Running == assertFailed = "" /\ calls < MaxCalls

\* ObjCContextInfo::operator|= (clang/APINotes/Types.h): flags accumulate,
\* a field that is set is kept.
MergeCommonEntityInfo(lhs, rhs) ==
  [UnavailableMsg |-> IF lhs.UnavailableMsg = EmptyStr
                      THEN rhs.UnavailableMsg ELSE lhs.UnavailableMsg,
   Unavailable |-> lhs.Unavailable \/ rhs.Unavailable,
   UnavailableInSwift |-> lhs.UnavailableInSwift \/ rhs.UnavailableInSwift,
   SwiftPrivate |-> lhs.SwiftPrivate \/ rhs.SwiftPrivate,
   SwiftName |-> IF lhs.SwiftName = EmptyStr
                 THEN rhs.SwiftName ELSE lhs.SwiftName]

MergeCommonTypeInfo(lhs, rhs) ==
  [Entity |-> MergeCommonEntityInfo(lhs.Entity, rhs.Entity),
   SwiftBridge |-> IF lhs.SwiftBridge = EmptyStr
                   THEN rhs.SwiftBridge ELSE lhs.SwiftBridge,
   NSErrorDomain |-> IF lhs.NSErrorDomain = EmptyStr
                     THEN rhs.NSErrorDomain ELSE lhs.NSErrorDomain]

MergeObjCContextInfo(lhs, rhs) ==
  [Type |-> MergeCommonTypeInfo(lhs.Type, rhs.Type),
   DefaultNullability |-> IF lhs.DefaultNullability = <<>>
                          THEN rhs.DefaultNullability
                          ELSE lhs.DefaultNullability,
   HasDesignatedInits |-> lhs.HasDesignatedInits \/ rhs.HasDesignatedInits]

\* addObjCClass / addObjCProtocol without the find: the record is inserted
\* anew under the next ID whether or not the key is known.
addContextRecordNoMerge(contexts, key, info) ==
  SetKey(contexts, key,
         [id |-> Cardinality(DOMAIN contexts) + 1, info |-> info])

\* addObjCClass / addObjCProtocol numbering classes and protocols apart:
\* the next ID counts the records of the key's own kind.
addContextRecordPerKind(contexts, key, info) ==
  IF key \in DOMAIN contexts
  THEN [contexts EXCEPT
          ![key] = [id |-> @.id, info |-> MergeObjCContextInfo(@.info, info)]]
  ELSE SetKey(contexts, key,
              [id |-> Cardinality({k \in DOMAIN contexts : k[2] = key[2]}) + 1,
               info |-> info])

\* addObjCClass / addObjCProtocol after getIdentifier: find the key, merge
\* into the known record or insert a new one under the next ID.
addContextRecord(contexts, key, info) ==
  IF key \in DOMAIN contexts
  THEN [contexts EXCEPT
          ![key] = [id |-> @.id, info |-> MergeObjCContextInfo(@.info, info)]]
  ELSE SetKey(contexts, key,
              [id |-> Cardinality(DOMAIN contexts) + 1, info |-> info])

addContextName(contexts, names, key) ==
  IF key \in DOMAIN contexts
  THEN names
  ELSE SetKey(names, Cardinality(DOMAIN contexts) + 1, key[1])

AddObjCClass(name, info) ==
  /\ Running
  /\ LET r == getIdentifier(IdentifierIDs, name)
         key == <<r.id, 0>>
     IN /\ IdentifierIDs' = r.IdentifierIDs
        /\ ObjCContexts' = addContextRecord(ObjCContexts, key, info)
        /\ ObjCContextNames' = addContextName(ObjCContexts, ObjCContextNames, key)
        /\ ctxLog' = ctxLog \cup {<<name, 0, ObjCContexts'[key].id>>}
        /\ idLog' = idLog \cup {<<name, r.id>>}
  /\ internOrder' = Seen(internOrder, <<name>>)
  /\ calls' = calls + 1
  /\ UNCHANGED <<fsVars, emitVars, parserVars, scanVars>>
  /\ UNCHANGED <<SelectorIDs, ModuleName, SwiftInferImportAsMember,
                 ObjCProperties, ObjCMethods, GlobalVariables,
                 GlobalFunctions, EnumConstants, Tags, Typedefs, os,
                 assertFailed, selLog>>

AddObjCProtocol(name, info) ==
  /\ Running
  /\ LET r == getIdentifier(IdentifierIDs, name)
         key == <<r.id, 1>>
     IN /\ IdentifierIDs' = r.IdentifierIDs
        /\ ObjCContexts' = addContextRecord(ObjCContexts, key, info)
        /\ ObjCContextNames' = addContextName(ObjCContexts, ObjCContextNames, key)
        /\ ctxLog' = ctxLog \cup {<<name, 1, ObjCContexts'[key].id>>}
        /\ idLog' = idLog \cup {<<name, r.id>>}
  /\ internOrder' = Seen(internOrder, <<name>>)
  /\ calls' = calls + 1
  /\ UNCHANGED <<fsVars, emitVars, parserVars, scanVars>>
  /\ UNCHANGED <<SelectorIDs, ModuleName, SwiftInferImportAsMember,
                 ObjCProperties, ObjCMethods, GlobalVariables,
                 GlobalFunctions, EnumConstants, Tags, Typedefs, os,
                 assertFailed, selLog>>

\* Map[key] = info without the assertion: a known key is overwritten.
storeOverwriting(map, key, info) ==
  [failed |-> FALSE, map |-> SetKey(map, key, info)]

\* A store that a writer closed by writeToStream refuses.
storeUnlessWritten(map, key, info) ==
  IF key \in DOMAIN map \/ os # <<>>
  THEN [failed |-> TRUE, map |-> map]
  ELSE [failed |-> FALSE, map |-> SetKey(map, key, info)]

\* The store made before the assertion: a known key fails the assertion
\* with its record already replaced.
storeThenAssert(map, key, info) ==
  [failed |-> key \in DOMAIN map, map |-> SetKey(map, key, info)]

\* assert(!Map.count(key)); Map[key] = info;
\* the map afterwards, and whether the assertion failed.
storeUnique(map, key, info) ==
  IF key \in DOMAIN map
  THEN [failed |-> TRUE, map |-> map]
  ELSE [failed |-> FALSE, map |-> SetKey(map, key, info)]

\* addObjCProperty with the first two parts of its key in each other's
\* place: the name ID where the context ID belongs.
AddObjCPropertySwapped(contextID, name, isInstance, info) ==
  /\ Running
  /\ LET r == getIdentifier(IdentifierIDs, name)
         s == storeUnique(ObjCProperties, <<r.id, contextID, B2N(isInstance)>>, info)
     IN /\ IdentifierIDs' = r.IdentifierIDs
        /\ ObjCProperties' = s.map
        /\ assertFailed' = IF s.failed THEN "addObjCProperty" ELSE ""
        /\ idLog' = idLog \cup {<<name, r.id>>}
  /\ internOrder' = Seen(internOrder, <<name>>)
  /\ calls' = calls + 1
  /\ UNCHANGED <<fsVars, emitVars, parserVars, scanVars>>
  /\ UNCHANGED <<SelectorIDs, ModuleName, SwiftInferImportAsMember,
                 ObjCContexts, ObjCContextNames, ObjCMethods, GlobalVariables,
                 GlobalFunctions, EnumConstants, Tags, Typedefs, os,
                 selLog, ctxLog>>

AddObjCProperty(contextID, name, isInstance, info) ==
  /\ Running
  /\ LET r == getIdentifier(IdentifierIDs, name)
         s == storeUnique(ObjCProperties, <<contextID, r.id, B2N(isInstance)>>, info)
     IN /\ IdentifierIDs' = r.IdentifierIDs
        /\ ObjCProperties' = s.map
        /\ assertFailed' = IF s.failed THEN "addObjCProperty" ELSE ""
        /\ idLog' = idLog \cup {<<name, r.id>>}
  /\ internOrder' = Seen(internOrder, <<name>>)
  /\ calls' = calls + 1
  /\ UNCHANGED <<fsVars, emitVars, parserVars, scanVars>>
  /\ UNCHANGED <<SelectorIDs, ModuleName, SwiftInferImportAsMember,
                 ObjCContexts, ObjCContextNames, ObjCMethods, GlobalVariables,
                 GlobalFunctions, EnumConstants, Tags, Typedefs, os,
                 selLog, ctxLog>>

\* The designated-initializer update of addObjCMethod: the assertion reads
\* ObjCContextNames[contextID] (operator[] inserts a zero for a missing
\* key) and the class record of that name gets the flag.
noteDesignatedInit(contexts, names, contextID) ==
  LET names1 == IF contextID \in DOMAIN names
                THEN names ELSE SetKey(names, contextID, 0)
      key == <<names1[contextID], 0>>
  IN IF key \in DOMAIN contexts
     THEN [failed |-> FALSE, names |-> names1,
           contexts |-> [contexts EXCEPT
                           ![key].info.HasDesignatedInits = TRUE]]
     ELSE [failed |-> TRUE, names |-> names1, contexts |-> contexts]

\* <<piece, ID>> for the pieces of a selector reference.
pieceIDs(ids, pieces) ==
  LET p == internPieces(ids, pieces)
  IN {<<pieces[i], p.Identifiers[i]>> : i \in DOMAIN pieces}

AddObjCMethod(contextID, selector, isInstanceMethod, info) ==
  /\ Running
  /\ LET g == getSelector(IdentifierIDs, SelectorIDs, selector)
         key == <<contextID, g.id, B2N(isInstanceMethod)>>
         s == storeUnique(ObjCMethods, key, info)
         d == noteDesignatedInit(ObjCContexts, ObjCContextNames, contextID)
     IN /\ IdentifierIDs' = g.IdentifierIDs
        /\ SelectorIDs' = g.SelectorIDs
        /\ ObjCMethods' = s.map
        /\ IF ~s.failed /\ info.DesignatedInit
           THEN /\ ObjCContexts' = d.contexts
                /\ ObjCContextNames' = d.names
                /\ assertFailed' = IF d.failed THEN "addObjCMethod" ELSE ""
           ELSE /\ UNCHANGED <<ObjCContexts, ObjCContextNames>>
                /\ assertFailed' = IF s.failed THEN "addObjCMethod" ELSE ""
        /\ selLog' = selLog \cup {<<selector, g.id>>}
        /\ idLog' = idLog \cup pieceIDs(IdentifierIDs, selector.Identifiers)
  /\ internOrder' = Seen(internOrder, selector.Identifiers)
  /\ calls' = calls + 1
  /\ UNCHANGED <<fsVars, emitVars, parserVars, scanVars>>
  /\ UNCHANGED <<ModuleName, SwiftInferImportAsMember, ObjCProperties,
                 GlobalVariables, GlobalFunctions, EnumConstants, Tags,
                 Typedefs, os, ctxLog>>

AddGlobalVariable(name, info) ==
  /\ Running
  /\ LET r == getIdentifier(IdentifierIDs, name)
         s == storeUnique(GlobalVariables, r.id, info)
     IN /\ IdentifierIDs' = r.IdentifierIDs
        /\ GlobalVariables' = s.map
        /\ assertFailed' = IF s.failed THEN "addGlobalVariable" ELSE ""
        /\ idLog' = idLog \cup {<<name, r.id>>}
  /\ internOrder' = Seen(internOrder, <<name>>)
  /\ calls' = calls + 1
  /\ UNCHANGED <<fsVars, emitVars, parserVars, scanVars>>
  /\ UNCHANGED <<SelectorIDs, ModuleName, SwiftInferImportAsMember,
                 ObjCContexts, ObjCContextNames, ObjCProperties, ObjCMethods,
                 GlobalFunctions, EnumConstants,
                 Tags, Typedefs, os, selLog, ctxLog>>

AddGlobalFunction(name, info) ==
  /\ Running
  /\ LET r == getIdentifier(IdentifierIDs, name)
         s == storeUnique(GlobalFunctions, r.id, info)
     IN /\ IdentifierIDs' = r.IdentifierIDs
        /\ GlobalFunctions' = s.map
        /\ assertFailed' = IF s.failed THEN "addGlobalFunction" ELSE ""
        /\ idLog' = idLog \cup {<<name, r.id>>}
  /\ internOrder' = Seen(internOrder, <<name>>)
  /\ calls' = calls + 1
  /\ UNCHANGED <<fsVars, emitVars, parserVars, scanVars>>
  /\ UNCHANGED <<SelectorIDs, ModuleName, SwiftInferImportAsMember,
                 ObjCContexts, ObjCContextNames, ObjCProperties, ObjCMethods,
                 GlobalVariables, EnumConstants,
                 Tags, Typedefs, os, selLog, ctxLog>>

AddEnumConstant(name, info) ==
  /\ Running
  /\ LET r == getIdentifier(IdentifierIDs, name)
         s == storeUnique(EnumConstants, r.id, info)
     IN /\ IdentifierIDs' = r.IdentifierIDs
        /\ EnumConstants' = s.map
        /\ assertFailed' = IF s.failed THEN "addEnumConstant" ELSE ""
        /\ idLog' = idLog \cup {<<name, r.id>>}
  /\ internOrder' = Seen(internOrder, <<name>>)
  /\ calls' = calls + 1
  /\ UNCHANGED <<fsVars, emitVars, parserVars, scanVars>>
  /\ UNCHANGED <<SelectorIDs, ModuleName, SwiftInferImportAsMember,
                 ObjCContexts, ObjCContextNames, ObjCProperties, ObjCMethods,
                 GlobalVariables, GlobalFunctions,
                 Tags, Typedefs, os, selLog, ctxLog>>

AddTag(name, info) ==
  /\ Running
  /\ LET r == getIdentifier(IdentifierIDs, name)
         s == storeUnique(Tags, r.id, info)
     IN /\ IdentifierIDs' = r.IdentifierIDs
        /\ Tags' = s.map
        /\ assertFailed' = IF s.failed THEN "addTag" ELSE ""
        /\ idLog' = idLog \cup {<<name, r.id>>}
  /\ internOrder' = Seen(internOrder, <<name>>)
  /\ calls' = calls + 1
  /\ UNCHANGED <<fsVars, emitVars, parserVars, scanVars>>
  /\ UNCHANGED <<SelectorIDs, ModuleName, SwiftInferImportAsMember,
                 ObjCContexts, ObjCContextNames, ObjCProperties, ObjCMethods,
                 GlobalVariables, GlobalFunctions,
                 EnumConstants, Typedefs, os, selLog, ctxLog>>

AddTypedef(name, info) ==
  /\ Running
  /\ LET r == getIdentifier(IdentifierIDs, name)
         s == storeUnique(Typedefs, r.id, info)
     IN /\ IdentifierIDs' = r.IdentifierIDs
        /\ Typedefs' = s.map
        /\ assertFailed' = IF s.failed THEN "addTypedef" ELSE ""
        /\ idLog' = idLog \cup {<<name, r.id>>}
  /\ internOrder' = Seen(internOrder, <<name>>)
  /\ calls' = calls + 1
  /\ UNCHANGED <<fsVars, emitVars, parserVars, scanVars>>
  /\ UNCHANGED <<SelectorIDs, ModuleName, SwiftInferImportAsMember,
                 ObjCContexts, ObjCContextNames, ObjCProperties, ObjCMethods,
                 GlobalVariables, GlobalFunctions,
                 EnumConstants, Tags, os, selLog, ctxLog>>

AddModuleOptions(opts) ==
  /\ Running
  /\ SwiftInferImportAsMember' = opts.SwiftInferImportAsMember
  /\ calls' = calls + 1
  /\ UNCHANGED <<fsVars, emitVars, parserVars, scanVars>>
  /\ UNCHANGED <<IdentifierIDs, SelectorIDs, ModuleName, ObjCContexts,
                 ObjCContextNames, ObjCProperties, ObjCMethods,
                 GlobalVariables, GlobalFunctions, EnumConstants, Tags,
                 Typedefs, os, assertFailed, idLog, selLog, ctxLog,
                 internOrder>>

-----------------------------------------------------------------------------
(* Serialization: the bytes the *TableInfo classes emit.  An entry of an   *)
(* on-disk hash table is what OnDiskChainedHashTableGenerator::Emit makes  *)
(* the info object write for one item: EmitKeyDataLength, EmitKey and      *)
(* EmitData, one after the other.                                          *)

Entry(lengths, key, data) == LE16(lengths[1]) \o LE16(lengths[2]) \o key \o data

getCommonEntityInfoSize(info) ==
  5 + Len(info.UnavailableMsg) + Len(info.SwiftName)

\* emitCommonEntityInfo leaving SwiftPrivate out of the flags byte.
emitCommonEntityInfoNoPrivate(info) ==
  LE8(B2N(info.Unavailable) * 2 + B2N(info.UnavailableInSwift))
  \o LE16(Len(info.UnavailableMsg)) \o info.UnavailableMsg
  \o LE16(Len(info.SwiftName)) \o info.SwiftName

\* emitCommonEntityInfo with the two unavailability bits exchanged.
emitCommonEntityInfoSwappedBits(info) ==
  LE8(B2N(info.SwiftPrivate) * 4 + B2N(info.UnavailableInSwift) * 2
      + B2N(info.Unavailable))
  \o LE16(Len(info.UnavailableMsg)) \o info.UnavailableMsg
  \o LE16(Len(info.SwiftName)) \o info.SwiftName

emitCommonEntityInfo(info) ==
  LE8(B2N(info.SwiftPrivate) * 4 + B2N(info.Unavailable) * 2
      + B2N(info.UnavailableInSwift))
  \o LE16(Len(info.UnavailableMsg)) \o info.UnavailableMsg
  \o LE16(Len(info.SwiftName)) \o info.SwiftName

getCommonTypeInfoSize(info) ==
  2 + Len(info.SwiftBridge) + 2 + Len(info.NSErrorDomain)
  + getCommonEntityInfoSize(info.Entity)

emitCommonTypeInfo(info) ==
  emitCommonEntityInfo(info.Entity)
  \o LE16(Len(info.SwiftBridge)) \o info.SwiftBridge
  \o LE16(Len(info.NSErrorDomain)) \o info.NSErrorDomain

\* {present, value} bytes of an Optional<NullabilityKind>
emitNullable(nullable) ==
  IF nullable = <<>> THEN <<0, 0>> ELSE <<1, nullable[1] % 256>>

\* ObjCContextTableInfo
dataBytes == 3

ObjCContextKeyDataLength(key, data) ==
  <<4 + 1, 4 + getCommonTypeInfoSize(data.info.Type) + dataBytes>>

ObjCContextEmitKey(key) == LE32(key[1]) \o LE8(key[2])

ObjCContextEmitData(key, data) ==
  LE32(data.id) \o emitCommonTypeInfo(data.info.Type)
  \o emitNullable(data.info.DefaultNullability)
  \o <<B2N(data.info.HasDesignatedInits)>>

getVariableInfoSize(info) == 2 + getCommonEntityInfoSize(info.Entity)

emitVariableInfo(info) ==
  emitCommonEntityInfo(info.Entity) \o emitNullable(info.Nullability)

\* ObjCPropertyTableInfo
ObjCPropertyKeyDataLength(key, data) == <<4 + 4 + 1, getVariableInfoSize(data)>>

\* ObjCPropertyTableInfo::EmitKey writing 0 for the is-instance byte.
ObjCPropertyEmitKeyNoInstance(key) == LE32(key[1]) \o LE32(key[2]) \o LE8(0)

ObjCPropertyEmitKey(key) == LE32(key[1]) \o LE32(key[2]) \o LE8(key[3])

ObjCPropertyEmitData(key, data) == emitVariableInfo(data)

getFunctionInfoSize(info) ==
  2 + 8 + getCommonEntityInfoSize(info.Entity) + 2 + Len(info.Params) * 1

\* The payload byte of one parameter (a NullabilityKind is below 4, so the
\* bitwise or is a sum).
emitParam(pi) ==
  LET payload0 == B2N(pi.NoEscape)
      payload1 == payload0 * 2 + B2N(pi.Nullability # <<>>)
      payload2 == payload1 * 4
  IN LE8(IF pi.Nullability # <<>>
         THEN payload2 + pi.Nullability[1] ELSE payload2)

RECURSIVE emitParams(_)
emitParams(params) ==
  IF params = <<>> THEN <<>>
  ELSE emitParam(Head(params)) \o emitParams(Tail(params))

emitFunctionInfo(info) ==
  emitCommonEntityInfo(info.Entity)
  \o LE8(B2N(info.NullabilityAudited))
  \o LE8(info.NumAdjustedNullable)
  \o LE64(info.NullabilityPayload)
  \o LE16(Len(info.Params)) \o emitParams(info.Params)

\* ObjCMethodTableInfo
ObjCMethodKeyDataLength(key, data) ==
  <<4 + 4 + 1, getFunctionInfoSize(data.Function) + 3>>

ObjCMethodEmitKey(key) == LE32(key[1]) \o LE32(key[2]) \o LE8(key[3])

ObjCMethodEmitData(key, data) ==
  emitFunctionInfo(data.Function)
  \o LE8(B2N(data.DesignatedInit)) \o LE8(B2N(data.FactoryAsInit))
  \o LE8(B2N(data.Required))

\* ObjCSelectorTableInfo
RECURSIVE emitPieces(_)
emitPieces(identifiers) ==
  IF identifiers = <<>> THEN <<>>
  ELSE LE32(Head(identifiers)) \o emitPieces(Tail(identifiers))

ObjCSelectorKeyDataLength(key, data) == <<2 + 4 * Len(key.Identifiers), 4>>

ObjCSelectorEmitKey(key) == LE16(key.NumPieces) \o emitPieces(key.Identifiers)

ObjCSelectorEmitData(key, data) == LE32(data)

\* IdentifierTableInfo
IdentifierKeyDataLength(key, data) == <<Len(key), 4>>

IdentifierEmitKey(key) == key

IdentifierEmitData(key, data) == LE32(data)

\* GlobalVariableTableInfo
GlobalVariableKeyDataLength(key, data) == <<4, getVariableInfoSize(data)>>

GlobalVariableEmitData(key, data) == emitVariableInfo(data)

\* GlobalFunctionTableInfo
GlobalFunctionKeyDataLength(key, data) == <<4, getFunctionInfoSize(data)>>

GlobalFunctionEmitData(key, data) == emitFunctionInfo(data)

\* EnumConstantTableInfo
EnumConstantKeyDataLength(key, data) == <<4, getCommonEntityInfoSize(data)>>

EnumConstantEmitData(key, data) == emitCommonEntityInfo(data)

\* TagTableInfo and TypedefTableInfo
TagKeyDataLength(key, data) == <<4, getCommonTypeInfoSize(data)>>

TagEmitData(key, data) == emitCommonTypeInfo(data)

TypedefKeyDataLength(key, data) == <<4, getCommonTypeInfoSize(data)>>

TypedefEmitData(key, data) == emitCommonTypeInfo(data)

\* EmitKey of the tables keyed by an identifier ID alone.
NameIDEmitKey(key) == LE32(key)

-----------------------------------------------------------------------------
(* writeToStream.  The stream is a sequence of items: the signature's      *)
(* bytes, then the blocks; a block is its ID and its records.  The blob of *)
(* a hash-table record is the leading zero word and the table's entries.   *)

\* API_NOTES_SIGNATURE (APINotesFormat.h)
API_NOTES_SIGNATURE == <<226, 156, 168, 1>>

ByteItem(b) == [kind |-> "byte", value |-> b]

BlockItem(id, records) ==
  [kind |-> "block", value |-> [id |-> id, records |-> records]]

\* A table block that emits its data record whether or not the map is empty.
TableRecordsAlways(code, entries) ==
  <<[code |-> code, blob |-> [zero |-> LE32(0), table |-> entries]]>>

\* The body shared by the table blocks: nothing for an empty map, else one
\* data record holding the blob; entries are what generator.Emit makes the
\* info object write for the items inserted.
TableRecords(code, entries) ==
  IF entries = {}
  THEN <<>>
  ELSE <<[code |-> code,
          blob |-> [zero |-> LE32(0), table |-> entries]]>>

writeBlockInfoBlock ==
  BlockItem("BLOCKINFO_BLOCK",
    <<[block |-> "CONTROL_BLOCK", records |-> <<"METADATA", "MODULE_NAME">>],
      [block |-> "IDENTIFIER_BLOCK", records |-> <<"IDENTIFIER_DATA">>],
      [block |-> "OBJC_CONTEXT_BLOCK", records |-> <<"OBJC_CONTEXT_DATA">>],
      [block |-> "OBJC_PROPERTY_BLOCK", records |-> <<"OBJC_PROPERTY_DATA">>],
      [block |-> "OBJC_METHOD_BLOCK", records |-> <<"OBJC_METHOD_DATA">>],
      [block |-> "OBJC_SELECTOR_BLOCK", records |-> <<"OBJC_SELECTOR_DATA">>],
      [block |-> "GLOBAL_VARIABLE_BLOCK", records |-> <<"GLOBAL_VARIABLE_DATA">>],
      [block |-> "GLOBAL_FUNCTION_BLOCK", records |-> <<"GLOBAL_FUNCTION_DATA">>]>>)

\* writeControlBlock emitting the module options record unconditionally.
writeControlBlockWithOptions(moduleName, inferImportAsMember) ==
  [kind |-> "block",
   value |-> [id |-> "CONTROL_BLOCK",
              records |->
                <<[code |-> "METADATA",
                   value |-> <<"VERSION_MAJOR", "VERSION_MINOR">>],
                  [code |-> "MODULE_NAME", value |-> moduleName],
                  [code |-> "MODULE_OPTIONS", value |-> inferImportAsMember]>>]]

writeControlBlock(moduleName, inferImportAsMember) ==
  BlockItem("CONTROL_BLOCK",
    <<[code |-> "METADATA", value |-> <<"VERSION_MAJOR", "VERSION_MINOR">>],
      [code |-> "MODULE_NAME", value |-> moduleName]>>
    \o (IF inferImportAsMember
        THEN <<[code |-> "MODULE_OPTIONS", value |-> inferImportAsMember]>>
        ELSE <<>>))

writeIdentifierBlock(ids) ==
  BlockItem("IDENTIFIER_BLOCK",
    TableRecords("IDENTIFIER_DATA",
      {Entry(IdentifierKeyDataLength(k, ids[k]), IdentifierEmitKey(k),
             IdentifierEmitData(k, ids[k])) : k \in DOMAIN ids}))

writeObjCContextBlock(contexts) ==
  BlockItem("OBJC_CONTEXT_BLOCK",
    TableRecords("OBJC_CONTEXT_DATA",
      {Entry(ObjCContextKeyDataLength(k, contexts[k]), ObjCContextEmitKey(k),
             ObjCContextEmitData(k, contexts[k])) : k \in DOMAIN contexts}))

writeObjCPropertyBlock(properties) ==
  BlockItem("OBJC_PROPERTY_BLOCK",
    TableRecords("OBJC_PROPERTY_DATA",
      {Entry(ObjCPropertyKeyDataLength(k, properties[k]), ObjCPropertyEmitKey(k),
             ObjCPropertyEmitData(k, properties[k])) : k \in DOMAIN properties}))

writeObjCMethodBlock(methods) ==
  BlockItem("OBJC_METHOD_BLOCK",
    TableRecords("OBJC_METHOD_DATA",
      {Entry(ObjCMethodKeyDataLength(k, methods[k]), ObjCMethodEmitKey(k),
             ObjCMethodEmitData(k, methods[k])) : k \in DOMAIN methods}))

writeObjCSelectorBlock(sels) ==
  BlockItem("OBJC_SELECTOR_BLOCK",
    TableRecords("OBJC_SELECTOR_DATA",
      {Entry(ObjCSelectorKeyDataLength(k, sels[k]), ObjCSelectorEmitKey(k),
             ObjCSelectorEmitData(k, sels[k])) : k \in DOMAIN sels}))

writeGlobalVariableBlock(variables) ==
  BlockItem("GLOBAL_VARIABLE_BLOCK",
    TableRecords("GLOBAL_VARIABLE_DATA",
      {Entry(GlobalVariableKeyDataLength(k, variables[k]), NameIDEmitKey(k),
             GlobalVariableEmitData(k, variables[k])) : k \in DOMAIN variables}))

writeGlobalFunctionBlock(functions) ==
  BlockItem("GLOBAL_FUNCTION_BLOCK",
    TableRecords("GLOBAL_FUNCTION_DATA",
      {Entry(GlobalFunctionKeyDataLength(k, functions[k]), NameIDEmitKey(k),
             GlobalFunctionEmitData(k, functions[k])) : k \in DOMAIN functions}))

writeEnumConstantBlock(constants) ==
  BlockItem("ENUM_CONSTANT_BLOCK",
    TableRecords("ENUM_CONSTANT_DATA",
      {Entry(EnumConstantKeyDataLength(k, constants[k]), NameIDEmitKey(k),
             EnumConstantEmitData(k, constants[k])) : k \in DOMAIN constants}))

writeTagBlock(tags) ==
  BlockItem("TAG_BLOCK",
    TableRecords("TAG_DATA",
      {Entry(TagKeyDataLength(k, tags[k]), NameIDEmitKey(k),
             TagEmitData(k, tags[k])) : k \in DOMAIN tags}))

writeTypedefBlock(typedefs) ==
  BlockItem("TYPEDEF_BLOCK",
    TableRecords("TYPEDEF_DATA",
      {Entry(TypedefKeyDataLength(k, typedefs[k]), NameIDEmitKey(k),
             TypedefEmitData(k, typedefs[k])) : k \in DOMAIN typedefs}))

\* writeToStream emitting the selector block ahead of the method block.
writeToStreamBufferSelectorsFirst ==
  [i \in 1..Len(API_NOTES_SIGNATURE) |-> ByteItem(API_NOTES_SIGNATURE[i])]
  \o <<writeBlockInfoBlock,
       writeControlBlock(ModuleName, SwiftInferImportAsMember),
       writeIdentifierBlock(IdentifierIDs),
       writeObjCContextBlock(ObjCContexts),
       writeObjCPropertyBlock(ObjCProperties),
       writeObjCSelectorBlock(SelectorIDs),
       writeObjCMethodBlock(ObjCMethods),
       writeGlobalVariableBlock(GlobalVariables),
       writeGlobalFunctionBlock(GlobalFunctions),
       writeEnumConstantBlock(EnumConstants),
       writeTagBlock(Tags),
       writeTypedefBlock(Typedefs)>>

\* writeToStream without the signature.
writeToStreamBufferNoSignature ==
  <<writeBlockInfoBlock,
    writeControlBlock(ModuleName, SwiftInferImportAsMember),
    writeIdentifierBlock(IdentifierIDs),
    writeObjCContextBlock(ObjCContexts),
    writeObjCPropertyBlock(ObjCProperties),
    writeObjCMethodBlock(ObjCMethods),
    writeObjCSelectorBlock(SelectorIDs),
    writeGlobalVariableBlock(GlobalVariables),
    writeGlobalFunctionBlock(GlobalFunctions),
    writeEnumConstantBlock(EnumConstants),
    writeTagBlock(Tags),
    writeTypedefBlock(Typedefs)>>

\* The buffer Implementation::writeToStream fills and writes to the stream.
writeToStreamBuffer ==
  [i \in 1..Len(API_NOTES_SIGNATURE) |-> ByteItem(API_NOTES_SIGNATURE[i])]
  \o <<writeBlockInfoBlock,
       writeControlBlock(ModuleName, SwiftInferImportAsMember),
       writeIdentifierBlock(IdentifierIDs),
       writeObjCContextBlock(ObjCContexts),
       writeObjCPropertyBlock(ObjCProperties),
       writeObjCMethodBlock(ObjCMethods),
       writeObjCSelectorBlock(SelectorIDs),
       writeGlobalVariableBlock(GlobalVariables),
       writeGlobalFunctionBlock(GlobalFunctions),
       writeEnumConstantBlock(EnumConstants),
       writeTagBlock(Tags),
       writeTypedefBlock(Typedefs)>>

\* writeToStream handing its tables to the stream: the context map is left
\* empty once written.
WriteToStreamDraining ==
  /\ Running
  /\ os' = writeToStreamBuffer
  /\ calls' = calls + 1
  /\ UNCHANGED <<fsVars, emitVars, parserVars, scanVars>>
  /\ ObjCContexts' = EmptyMap
  /\ UNCHANGED <<IdentifierIDs, SelectorIDs, ModuleName,
                 SwiftInferImportAsMember, ObjCContextNames, ObjCProperties,
                 ObjCMethods, GlobalVariables, GlobalFunctions,
                 EnumConstants, Tags, Typedefs, assertFailed, idLog, selLog,
                 ctxLog, internOrder>>

WriteToStream ==
  /\ Running
  /\ os' = writeToStreamBuffer
  /\ calls' = calls + 1
  /\ UNCHANGED <<fsVars, emitVars, parserVars, scanVars>>
  /\ UNCHANGED <<tables, assertFailed, idLog, selLog, ctxLog, internOrder>>

-----------------------------------------------------------------------------
(* The reader (APINotesReader.h).  Its implementation is not among the     *)
(* sources: the decoding below follows the format description (key and     *)
(* value layouts of every table, little-endian fixed-width integers,       *)
(* 16-bit length prefixes) and compares encoded keys byte for byte.  A     *)
(* lookup yields "absent", "found" with the decoded value, or "fault" when *)
(* the bytes cannot be decoded without reading past their end.             *)

Absent == [status |-> "absent", val |-> <<>>]

Found(v) == [status |-> "found", val |-> <<v>>]

DecodeFault == [status |-> "fault", val |-> <<>>]

InRange(bytes, pos, n) == pos >= 1 /\ n >= 0 /\ pos + n - 1 <= Len(bytes)

RECURSIVE readLE(_, _, _)
readLE(bytes, pos, width) ==
  IF width = 0 THEN 0 ELSE bytes[pos] + 256 * readLE(bytes, pos + 1, width - 1)

Bit(byte, n) == (byte \div (2 ^ n)) % 2 = 1

ReadFault == [ok |-> FALSE, next |-> 0, val |-> <<>>]

ReadOk(v, next) == [ok |-> TRUE, next |-> next, val |-> v]

\* a 16-bit length and that many bytes
readString(bytes, pos) ==
  IF ~InRange(bytes, pos, 2) THEN ReadFault
  ELSE LET n == readLE(bytes, pos, 2)
       IN IF ~InRange(bytes, pos + 2, n) THEN ReadFault
          ELSE ReadOk(SubSeq(bytes, pos + 2, pos + 1 + n), pos + 2 + n)

readCommonEntityInfo(bytes, pos) ==
  IF ~InRange(bytes, pos, 1) THEN ReadFault
  ELSE LET flags == bytes[pos]
           msg == readString(bytes, pos + 1)
       IN IF ~msg.ok THEN ReadFault
          ELSE LET name == readString(bytes, msg.next)
               IN IF ~name.ok THEN ReadFault
                  ELSE ReadOk(CommonEntityInfo(msg.val, Bit(flags, 1),
                                               Bit(flags, 0), Bit(flags, 2),
                                               name.val),
                              name.next)

readCommonTypeInfo(bytes, pos) ==
  LET entity == readCommonEntityInfo(bytes, pos)
  IN IF ~entity.ok THEN ReadFault
     ELSE LET bridge == readString(bytes, entity.next)
          IN IF ~bridge.ok THEN ReadFault
             ELSE LET domain == readString(bytes, bridge.next)
                  IN IF ~domain.ok THEN ReadFault
                     ELSE ReadOk(CommonTypeInfo(entity.val, bridge.val,
                                                domain.val),
                                 domain.next)

\* presence byte and value byte
readNullable(bytes, pos) ==
  IF ~InRange(bytes, pos, 2) THEN ReadFault
  ELSE ReadOk(IF bytes[pos] = 1 THEN <<bytes[pos + 1]>> ELSE <<>>, pos + 2)

readObjCContextData(bytes) ==
  IF ~InRange(bytes, 1, 4) THEN DecodeFault
  ELSE LET type == readCommonTypeInfo(bytes, 5)
       IN IF ~type.ok THEN DecodeFault
          ELSE LET nullable == readNullable(bytes, type.next)
               IN IF ~nullable.ok \/ ~InRange(bytes, nullable.next, 1)
                  THEN DecodeFault
                  ELSE Found([id |-> readLE(bytes, 1, 4),
                              info |-> ObjCContextInfo(type.val, nullable.val,
                                         bytes[nullable.next] = 1)])

readVariableInfo(bytes) ==
  LET entity == readCommonEntityInfo(bytes, 1)
  IN IF ~entity.ok THEN DecodeFault
     ELSE LET nullable == readNullable(bytes, entity.next)
          IN IF ~nullable.ok THEN DecodeFault
             ELSE Found(VariableInfo(entity.val, nullable.val))

readParam(byte) ==
  ParamInfo(Bit(byte, 3), IF Bit(byte, 2) THEN <<byte % 4>> ELSE <<>>)

readFunctionInfo(bytes, pos) ==
  LET entity == readCommonEntityInfo(bytes, pos)
  IN IF ~entity.ok \/ ~InRange(bytes, entity.next, 12) THEN ReadFault
     ELSE LET p == entity.next
              n == readLE(bytes, p + 10, 2)
          IN IF ~InRange(bytes, p + 12, n) THEN ReadFault
             ELSE ReadOk(FunctionInfo(entity.val, bytes[p] = 1, bytes[p + 1],
                                      readLE(bytes, p + 2, 8),
                                      [i \in 1..n |-> readParam(bytes[p + 11 + i])]),
                         p + 12 + n)

readGlobalFunctionInfo(bytes) ==
  LET function == readFunctionInfo(bytes, 1)
  IN IF ~function.ok THEN DecodeFault ELSE Found(function.val)

readObjCMethodInfo(bytes) ==
  LET function == readFunctionInfo(bytes, 1)
  IN IF ~function.ok \/ ~InRange(bytes, function.next, 3) THEN DecodeFault
     ELSE Found(ObjCMethodInfo(function.val, bytes[function.next] = 1,
                               bytes[function.next + 1] = 1,
                               bytes[function.next + 2] = 1))

readEnumConstantInfo(bytes) ==
  LET entity == readCommonEntityInfo(bytes, 1)
  IN IF ~entity.ok THEN DecodeFault ELSE Found(entity.val)

readTypeInfo(bytes) ==
  LET type == readCommonTypeInfo(bytes, 1)
  IN IF ~type.ok THEN DecodeFault ELSE Found(type.val)

readID(bytes) ==
  IF ~InRange(bytes, 1, 4) THEN DecodeFault ELSE Found(readLE(bytes, 1, 4))

\* APINotesReader::get: the reader (here the buffer it reads), or null
\* (<<>>) when the buffer does not start with the signature.
APINotesReaderGet(buffer) ==
  IF /\ Len(buffer) >= Len(API_NOTES_SIGNATURE)
     /\ \A i \in 1..Len(API_NOTES_SIGNATURE) :
          buffer[i].kind = "byte" /\ buffer[i].value = API_NOTES_SIGNATURE[i]
  THEN <<buffer>>
  ELSE <<>>

\* The entries of the hash table of block `id`: none when the block is
\* missing or holds no data record.
blockTable(buffer, id) ==
  LET found == {i \in 1..Len(buffer) :
                  buffer[i].kind = "block" /\ buffer[i].value.id = id}
  IN IF found = {} THEN {}
     ELSE LET block == buffer[CHOOSE i \in found : TRUE].value
          IN IF block.records = <<>> THEN {}
             ELSE block.records[1].blob.table

entryWellFormed(e) ==
  InRange(e, 1, 4) /\ Len(e) = 4 + readLE(e, 1, 2) + readLE(e, 3, 2)

entryKey(e) == SubSeq(e, 5, 4 + readLE(e, 1, 2))

entryData(e) == SubSeq(e, 5 + readLE(e, 1, 2), Len(e))

\* A point lookup: the entry whose key bytes equal the query's, decoded.
findEntry(table, keyBytes) ==
  IF \E e \in table : ~entryWellFormed(e) THEN DecodeFault
  ELSE LET matches == {e \in table : entryKey(e) = keyBytes}
       IN IF matches = {} THEN Absent
          ELSE Found(entryData(CHOOSE e \in matches : TRUE))

readerGetIdentifier(buffer, name) ==
  IF name = EmptyStr THEN Found(0)
  ELSE LET e == findEntry(blockTable(buffer, "IDENTIFIER_BLOCK"), name)
       IN IF e.status # "found" THEN e ELSE readID(e.val[1])

RECURSIVE readerPieceIDs(_, _)
readerPieceIDs(buffer, pieces) ==
  IF pieces = <<>> THEN Found(<<>>)
  ELSE LET id == readerGetIdentifier(buffer, Head(pieces))
           rest == readerPieceIDs(buffer, Tail(pieces))
       IN IF id.status # "found" THEN id
          ELSE IF rest.status # "found" THEN rest
          ELSE Found(<<id.val[1]>> \o rest.val[1])

readerGetSelector(buffer, selectorRef) ==
  LET ids == readerPieceIDs(buffer, selectorRef.Identifiers)
  IN IF ids.status # "found" THEN ids
     ELSE LET e == findEntry(blockTable(buffer, "OBJC_SELECTOR_BLOCK"),
                             LE16(selectorRef.NumPieces)
                             \o emitPieces(ids.val[1]))
          IN IF e.status # "found" THEN e ELSE readID(e.val[1])

lookupObjCContext(buffer, name, isProtocol) ==
  LET id == readerGetIdentifier(buffer, name)
  IN IF id.status # "found" THEN id
     ELSE LET e == findEntry(blockTable(buffer, "OBJC_CONTEXT_BLOCK"),
                             LE32(id.val[1]) \o LE8(isProtocol))
          IN IF e.status # "found" THEN e ELSE readObjCContextData(e.val[1])

lookupObjCClass(buffer, name) == lookupObjCContext(buffer, name, 0)

lookupObjCProtocol(buffer, name) == lookupObjCContext(buffer, name, 1)

lookupObjCProperty(buffer, contextID, name, isInstance) ==
  LET id == readerGetIdentifier(buffer, name)
  IN IF id.status # "found" THEN id
     ELSE LET e == findEntry(blockTable(buffer, "OBJC_PROPERTY_BLOCK"),
                             LE32(contextID) \o LE32(id.val[1])
                             \o LE8(B2N(isInstance)))
          IN IF e.status # "found" THEN e ELSE readVariableInfo(e.val[1])

lookupObjCMethod(buffer, contextID, selector, isInstanceMethod) ==
  LET id == readerGetSelector(buffer, selector)
  IN IF id.status # "found" THEN id
     ELSE LET e == findEntry(blockTable(buffer, "OBJC_METHOD_BLOCK"),
                             LE32(contextID) \o LE32(id.val[1])
                             \o LE8(B2N(isInstanceMethod)))
          IN IF e.status # "found" THEN e ELSE readObjCMethodInfo(e.val[1])

\* The lookups keyed by a name alone: the data bytes of the name's entry.
lookupByName(buffer, block, name) ==
  LET id == readerGetIdentifier(buffer, name)
  IN IF id.status # "found" THEN id
     ELSE findEntry(blockTable(buffer, block), LE32(id.val[1]))

lookupGlobalVariable(buffer, name) ==
  LET e == lookupByName(buffer, "GLOBAL_VARIABLE_BLOCK", name)
  IN IF e.status # "found" THEN e ELSE readVariableInfo(e.val[1])

lookupGlobalFunction(buffer, name) ==
  LET e == lookupByName(buffer, "GLOBAL_FUNCTION_BLOCK", name)
  IN IF e.status # "found" THEN e ELSE readGlobalFunctionInfo(e.val[1])

lookupEnumConstant(buffer, name) ==
  LET e == lookupByName(buffer, "ENUM_CONSTANT_BLOCK", name)
  IN IF e.status # "found" THEN e ELSE readEnumConstantInfo(e.val[1])

lookupTag(buffer, name) ==
  LET e == lookupByName(buffer, "TAG_BLOCK", name)
  IN IF e.status # "found" THEN e ELSE readTypeInfo(e.val[1])

lookupTypedef(buffer, name) ==
  LET e == lookupByName(buffer, "TYPEDEF_BLOCK", name)
  IN IF e.status # "found" THEN e ELSE readTypeInfo(e.val[1])

-----------------------------------------------------------------------------
ModuleOptionsInputs ==
  {[SwiftInferImportAsMember |-> TRUE], [SwiftInferImportAsMember |-> FALSE]}

Next ==
  \/ \E name \in ClassNames, info \in ContextInputs : AddObjCClass(name, info)
  \/ \E name \in ProtocolNames, info \in ContextInputs :
       AddObjCProtocol(name, info)
  \/ \E contextID \in ContextIDInputs, name \in PropertyNames,
        isInstance \in BOOLEAN, info \in VariableInputs :
       AddObjCProperty(contextID, name, isInstance, info)
  \/ \E contextID \in ContextIDInputs, m \in MethodInputs :
       AddObjCMethod(contextID, m[1], m[2], m[3])
  \/ \E info \in VariableInputs : AddGlobalVariable(StrA, info)
  \/ \E info \in FunctionInputs : AddGlobalFunction(StrB, info)
  \/ \E info \in EntityInputs : AddEnumConstant(StrA, info)
  \/ \E info \in TypeInputs : AddTag(StrB, info)
  \/ \E info \in TypeInputs : AddTypedef(StrA, info)
  \/ \E opts \in ModuleOptionsInputs : AddModuleOptions(opts)
  \/ WriteToStream

Spec == Init /\ [][Next]_vars

-----------------------------------------------------------------------------
(* What the writer's tables hold for a caller's name or selector. *)

\* <<ID>> of a name in the identifier table (0 for the empty string), <<>>
\* when the name was never interned.
knownIdentifier(name) ==
  IF name = EmptyStr THEN <<0>>
  ELSE IF name \in DOMAIN IdentifierIDs THEN <<IdentifierIDs[name]>>
  ELSE <<>>

\* <<ID>> of a selector reference in the selector table, <<>> when it was
\* never interned.
knownSelector(selectorRef) ==
  IF \E i \in DOMAIN selectorRef.Identifiers :
       knownIdentifier(selectorRef.Identifiers[i]) = <<>>
  THEN <<>>
  ELSE LET stored ==
             [NumPieces |-> selectorRef.NumPieces,
              Identifiers |-> [i \in DOMAIN selectorRef.Identifiers |->
                                 knownIdentifier(selectorRef.Identifiers[i])[1]]]
       IN IF stored \in DOMAIN SelectorIDs
          THEN <<SelectorIDs[stored]>> ELSE <<>>

\* The record a map holds under the key a name (or names) stands for:
\* <<record>> or <<>>.
heldContext(name, isProtocol) ==
  LET id == knownIdentifier(name)
  IN IF id # <<>> /\ <<id[1], isProtocol>> \in DOMAIN ObjCContexts
     THEN <<ObjCContexts[<<id[1], isProtocol>>]>> ELSE <<>>

heldProperty(contextID, name, isInstance) ==
  LET id == knownIdentifier(name)
  IN IF id # <<>> /\ <<contextID, id[1], B2N(isInstance)>> \in DOMAIN ObjCProperties
     THEN <<ObjCProperties[<<contextID, id[1], B2N(isInstance)>>]>> ELSE <<>>

heldMethod(contextID, selectorRef, isInstance) ==
  LET id == knownSelector(selectorRef)
  IN IF id # <<>> /\ <<contextID, id[1], B2N(isInstance)>> \in DOMAIN ObjCMethods
     THEN <<ObjCMethods[<<contextID, id[1], B2N(isInstance)>>]>> ELSE <<>>

heldByName(map, name) ==
  LET id == knownIdentifier(name)
  IN IF id # <<>> /\ id[1] \in DOMAIN map THEN <<map[id[1]]>> ELSE <<>>

\* A lookup's result agrees with what the writer holds: found with an equal
\* value when held.
FindsHeld(result, held) == held # <<>> => result = Found(held[1])

\* ... and absent when not held.
AbsentUnlessHeld(result, held) == held = <<>> => result = Absent

\* The stream has been written from the tables as they are now.
StreamCurrent == os # <<>> /\ os = writeToStreamBuffer

-----------------------------------------------------------------------------
(* C1 -- Round trip.  When writeToStream has written the stream from the   *)
(* tables as they are, a reader opened on it finds, for every key the      *)
(* writer holds (class, protocol, property, method, global variable,       *)
(* global function, enum constant, tag, typedef), a value equal field for  *)
(* field to the writer's record;                                           *)
(* lookupObjCClass / lookupObjCProtocol give the handle addObjCClass /     *)
(* addObjCProtocol returned, and property and method lookups made with     *)
(* that handle find the entries added under it.                            *)

RoundTripHolds ==
  /\ APINotesReaderGet(os) = <<os>>
  /\ \A name \in LookupNames :
       /\ FindsHeld(lookupObjCClass(os, name), heldContext(name, 0))
       /\ FindsHeld(lookupObjCProtocol(os, name), heldContext(name, 1))
       /\ FindsHeld(lookupGlobalVariable(os, name), heldByName(GlobalVariables, name))
       /\ FindsHeld(lookupGlobalFunction(os, name), heldByName(GlobalFunctions, name))
       /\ FindsHeld(lookupEnumConstant(os, name), heldByName(EnumConstants, name))
       /\ FindsHeld(lookupTag(os, name), heldByName(Tags, name))
       /\ FindsHeld(lookupTypedef(os, name), heldByName(Typedefs, name))
  /\ \A contextID \in ContextIDInputs, isInstance \in BOOLEAN :
       /\ \A name \in LookupNames :
            FindsHeld(lookupObjCProperty(os, contextID, name, isInstance),
                      heldProperty(contextID, name, isInstance))
       /\ \A selector \in SelectorInputs :
            FindsHeld(lookupObjCMethod(os, contextID, selector, isInstance),
                      heldMethod(contextID, selector, isInstance))
  /\ \A c \in ctxLog :
       LET found == lookupObjCContext(os, c[1], c[2])
       IN /\ found.status = "found"
          /\ found.val[1].id = c[3]
          /\ \A isInstance \in BOOLEAN :
               /\ \A name \in LookupNames :
                    FindsHeld(lookupObjCProperty(os, found.val[1].id, name, isInstance),
                              heldProperty(c[3], name, isInstance))
               /\ \A selector \in SelectorInputs :
                    FindsHeld(lookupObjCMethod(os, found.val[1].id, selector, isInstance),
                              heldMethod(c[3], selector, isInstance))

-----------------------------------------------------------------------------
(* C2 -- Duplicate rejection.  addObjCProperty, addObjCMethod,             *)
(* addGlobalVariable, addGlobalFunction, addEnumConstant, addTag and       *)
(* addTypedef called with a key the corresponding map already holds fail   *)
(* their assertion, and the map is left as it was: the record under the    *)
(* key is neither merged with nor replaced by the new info.                *)

\* A call made with a known key fails the assertion of the function named
\* and leaves the map alone.
Rejected(duplicate, call, function, mapUnchanged) ==
  (duplicate /\ call) => (assertFailed' = function /\ mapUnchanged)

C2_DuplicateRejected ==
  [][/\ \A contextID \in ContextIDInputs, name \in PropertyNames,
           isInstance \in BOOLEAN, info \in VariableInputs :
          Rejected(heldProperty(contextID, name, isInstance) # <<>>,
                   AddObjCProperty(contextID, name, isInstance, info),
                   "addObjCProperty", ObjCProperties' = ObjCProperties)
     /\ \A contextID \in ContextIDInputs, m \in MethodInputs :
          Rejected(heldMethod(contextID, m[1], m[2]) # <<>>,
                   AddObjCMethod(contextID, m[1], m[2], m[3]),
                   "addObjCMethod",
                   ObjCMethods' = ObjCMethods /\ ObjCContexts' = ObjCContexts)
     /\ \A info \in VariableInputs :
          Rejected(heldByName(GlobalVariables, StrA) # <<>>,
                   AddGlobalVariable(StrA, info),
                   "addGlobalVariable", GlobalVariables' = GlobalVariables)
     /\ \A info \in FunctionInputs :
          Rejected(heldByName(GlobalFunctions, StrB) # <<>>,
                   AddGlobalFunction(StrB, info),
                   "addGlobalFunction", GlobalFunctions' = GlobalFunctions)
     /\ \A info \in EntityInputs :
          Rejected(heldByName(EnumConstants, StrA) # <<>>,
                   AddEnumConstant(StrA, info),
                   "addEnumConstant", EnumConstants' = EnumConstants)
     /\ \A info \in TypeInputs :
          Rejected(heldByName(Tags, StrB) # <<>>, AddTag(StrB, info),
                   "addTag", Tags' = Tags)
     /\ \A info \in TypeInputs :
          Rejected(heldByName(Typedefs, StrA) # <<>>, AddTypedef(StrA, info),
                   "addTypedef", Typedefs' = Typedefs)
    ]_vars

\* A property was added twice under one key: the second call failed.
C2_Witness ==
  /\ assertFailed = "addObjCProperty"
  /\ ObjCProperties # EmptyMap

-----------------------------------------------------------------------------
(* C3 -- Context merge.  addObjCClass (resp. addObjCProtocol) called with  *)
(* a name that already has a class (protocol) record adds no record: the   *)
(* set of context keys and the record's handle stay as they are, the call  *)
(* returns the handle the first call returned, and every boolean flag of   *)
(* the record, has-designated-initializers among them, becomes the OR of   *)
(* the flag held and the flag passed.                                      *)

flagsOf(info) ==
  <<info.HasDesignatedInits, info.Type.Entity.Unavailable,
    info.Type.Entity.UnavailableInSwift, info.Type.Entity.SwiftPrivate>>

C3_ContextMerge ==
  [][\A name \in ClassNames \cup ProtocolNames, kind \in {0, 1},
        info \in ContextInputs :
       (/\ heldContext(name, kind) # <<>>
        /\ IF kind = 0 THEN AddObjCClass(name, info)
                       ELSE AddObjCProtocol(name, info))
       => LET key == <<IdentifierIDs[name], kind>>
          IN /\ DOMAIN ObjCContexts' = DOMAIN ObjCContexts
             /\ ObjCContexts'[key].id = ObjCContexts[key].id
             /\ <<name, kind, ObjCContexts[key].id>> \in ctxLog
             /\ ctxLog' = ctxLog
             /\ flagsOf(ObjCContexts'[key].info) =
                  [i \in 1..4 |-> flagsOf(ObjCContexts[key].info)[i]
                                    \/ flagsOf(info)[i]]
             /\ \A other \in DOMAIN ObjCContexts \ {key} :
                  ObjCContexts'[other] = ObjCContexts[other]
    ]_vars

\* One context, added twice with different infos and never given a method:
\* its record is neither of the infos passed and has the flag of one.
C3_Witness ==
  /\ assertFailed = ""
  /\ ObjCMethods = EmptyMap
  /\ Cardinality(DOMAIN ObjCContexts) = 1
  /\ Cardinality(ctxLog) = 1
  /\ \E key \in DOMAIN ObjCContexts :
       /\ ObjCContexts[key].info \notin ContextInputs
       /\ ObjCContexts[key].info.HasDesignatedInits

-----------------------------------------------------------------------------
(* C4 -- Designated-initializer propagation.  For every handle H that      *)
(* addObjCClass or addObjCProtocol returned, once addObjCMethod has stored *)
(* under H a method whose info has DesignatedInit set, the context record  *)
(* that owns H has HasDesignatedInits set.                                 *)

C4_Propagation ==
  assertFailed = "" =>
    \A c \in ctxLog :
      (\E key \in DOMAIN ObjCMethods :
         key[1] = c[3] /\ ObjCMethods[key].DesignatedInit)
      => heldContext(c[1], c[2])[1].info.HasDesignatedInits

-----------------------------------------------------------------------------
(* C5 -- Idempotent interning.  getIdentifier returns the same ID every    *)
(* time it is called with the same string, getSelector the same ID every   *)
(* time it is called with the same selector, and getIdentifier("")         *)
(* returns 0 and leaves the identifier table as it is.                     *)

C5_IdempotentInterning ==
  /\ \A a, b \in idLog : a[1] = b[1] => a[2] = b[2]
  /\ \A a, b \in selLog : a[1] = b[1] => a[2] = b[2]
  /\ \A e \in idLog :
       getIdentifier(IdentifierIDs, e[1]) =
         [id |-> e[2], IdentifierIDs |-> IdentifierIDs]
  /\ \A e \in selLog :
       getSelector(IdentifierIDs, SelectorIDs, e[1]) =
         [id |-> e[2], IdentifierIDs |-> IdentifierIDs,
          SelectorIDs |-> SelectorIDs]
  /\ getIdentifier(IdentifierIDs, EmptyStr) =
       [id |-> 0, IdentifierIDs |-> IdentifierIDs]
  /\ EmptyStr \notin DOMAIN IdentifierIDs
  /\ \A e \in idLog : e[1] = EmptyStr => e[2] = 0

\* The empty string was interned, a name twice and a selector twice: two
\* methods share a selector ID and the tables hold one entry for each.
C5_Witness ==
  /\ <<EmptyStr, 0>> \in idLog
  /\ Cardinality(DOMAIN SelectorIDs) = 1
  /\ Cardinality(DOMAIN IdentifierIDs) = 1
  /\ \E j, k \in DOMAIN ObjCMethods : j # k /\ j[2] = k[2]

-----------------------------------------------------------------------------
(* C6 -- Selector identity.  getSelector gives two selector references the *)
(* same ID exactly when their piece counts and their sequences of piece    *)
(* identifiers are equal; a reference that differs from an interned one in *)
(* its piece count alone has another ID, and in the written stream a       *)
(* method is found under a selector exactly when it was added under that   *)
(* selector.                                                               *)

C6_SelectorIdentity ==
  /\ \A a, b \in selLog :
       (a[2] = b[2]) <=> (/\ a[1].NumPieces = b[1].NumPieces
                          /\ a[1].Identifiers = b[1].Identifiers)
  /\ StreamCurrent =>
       \A contextID \in ContextIDInputs, selector \in SelectorInputs,
          isInstance \in BOOLEAN :
         LET result == lookupObjCMethod(os, contextID, selector, isInstance)
             held == heldMethod(contextID, selector, isInstance)
         IN FindsHeld(result, held) /\ AbsentUnlessHeld(result, held)

\* Two interned selectors that differ in the piece count alone: the method
\* added under one is found under it and absent under the other.
C6_Witness ==
  /\ StreamCurrent
  /\ \E a, b \in selLog :
       /\ a[1] = Sel0 /\ b[1] = Sel1 /\ a[2] # b[2]
  /\ heldMethod(1, Sel1, TRUE) # <<>>
  /\ heldMethod(1, Sel0, TRUE) = <<>>
  /\ lookupObjCMethod(os, 1, Sel1, TRUE).status = "found"
  /\ lookupObjCMethod(os, 1, Sel0, TRUE) = Absent

-----------------------------------------------------------------------------
(* C7 -- Selector piece count.  As stated: a selector reference with piece *)
(* count 0 is stored and keyed with piece count 1, so a zero-argument      *)
(* selector and a one-piece selector with the same identifier get the same *)
(* selector ID and the same on-disk key.                                   *)

\* The key getSelector stores for an interned selector reference.
storedKey(selectorRef) ==
  [NumPieces |-> selectorRef.NumPieces,
   Identifiers |-> [i \in DOMAIN selectorRef.Identifiers |->
                      knownIdentifier(selectorRef.Identifiers[i])[1]]]

\* The on-disk key of the selector table entry an interned reference got.
onDiskKey(e) ==
  ObjCSelectorEmitKey(CHOOSE k \in DOMAIN SelectorIDs : SelectorIDs[k] = e[2])

sameButCount(a, b) ==
  /\ a[1].NumPieces = 0
  /\ b[1].NumPieces = 1
  /\ a[1].Identifiers = b[1].Identifiers

C7_ZeroPiecesNormalized ==
  /\ \A k \in DOMAIN SelectorIDs : k.NumPieces # 0
  /\ \A a, b \in selLog :
       sameButCount(a, b) => (a[2] = b[2] /\ onDiskKey(a) = onDiskKey(b))

(* C7, as the code has it: the piece count is stored and keyed as passed.  *)
(* A reference with piece count 0 is stored with NumPieces 0 and its       *)
(* on-disk key starts with the 16-bit count 0, so a zero-argument selector *)
(* and a one-piece selector with the same identifier get different         *)
(* selector IDs and different on-disk keys.                                *)
C7_PieceCountKept ==
  /\ \A e \in selLog :
       /\ storedKey(e[1]) \in DOMAIN SelectorIDs
       /\ SelectorIDs[storedKey(e[1])] = e[2]
       /\ SubSeq(onDiskKey(e), 1, 2) = LE16(e[1].NumPieces)
  /\ \A a, b \in selLog :
       sameButCount(a, b) => (a[2] # b[2] /\ onDiskKey(a) # onDiskKey(b))

\* A zero-argument selector and a one-piece selector with the same
\* identifier have both been interned.
C7_Witness ==
  \E a, b \in selLog :
    /\ sameButCount(a, b)
    /\ storedKey(a[1]).NumPieces = 0
    /\ a[2] # b[2]

-----------------------------------------------------------------------------
(* C8 -- Identifier ID assignment.  In every state the identifier table    *)
(* maps its n strings, none of them empty, one-to-one onto 1..n, the k-th  *)
(* distinct string first seen having ID k; no string has ID 0.             *)

C8_SequentialIDs ==
  LET n == Cardinality(DOMAIN IdentifierIDs)
  IN /\ EmptyStr \notin DOMAIN IdentifierIDs
     /\ Range(IdentifierIDs) = 1..n
     /\ \A s, t \in DOMAIN IdentifierIDs :
          IdentifierIDs[s] = IdentifierIDs[t] => s = t
     /\ Len(internOrder) = n
     /\ \A k \in 1..n :
          /\ internOrder[k] \in DOMAIN IdentifierIDs
          /\ IdentifierIDs[internOrder[k]] = k
     /\ 0 \notin Range(IdentifierIDs)

\* Two strings interned, the second of the inputs first, and one of them
\* seen again since.
C8_Witness ==
  /\ DOMAIN IdentifierIDs = {StrA, StrB}
  /\ IdentifierIDs[StrB] = 1
  /\ IdentifierIDs[StrA] = 2
  /\ calls = 3

-----------------------------------------------------------------------------
(* C9 -- Absent lookups.  On a reader opened on the written stream, every  *)
(* lookup of a key the writer does not hold gives the empty result, not an *)
(* error: a property or method added as an instance member is absent when  *)
(* looked up as a class member, and a class name is absent from            *)
(* lookupObjCProtocol unless a protocol of that name was added.            *)

C9_AbsentLookups ==
  StreamCurrent =>
    /\ \A name \in LookupNames :
         /\ AbsentUnlessHeld(lookupObjCClass(os, name), heldContext(name, 0))
         /\ AbsentUnlessHeld(lookupObjCProtocol(os, name), heldContext(name, 1))
         /\ AbsentUnlessHeld(lookupGlobalVariable(os, name),
                             heldByName(GlobalVariables, name))
         /\ AbsentUnlessHeld(lookupGlobalFunction(os, name),
                             heldByName(GlobalFunctions, name))
         /\ AbsentUnlessHeld(lookupEnumConstant(os, name),
                             heldByName(EnumConstants, name))
         /\ AbsentUnlessHeld(lookupTag(os, name), heldByName(Tags, name))
         /\ AbsentUnlessHeld(lookupTypedef(os, name), heldByName(Typedefs, name))
    /\ \A contextID \in ContextIDInputs, isInstance \in BOOLEAN :
         /\ \A name \in LookupNames :
              AbsentUnlessHeld(lookupObjCProperty(os, contextID, name, isInstance),
                               heldProperty(contextID, name, isInstance))
         /\ \A selector \in SelectorInputs :
              AbsentUnlessHeld(lookupObjCMethod(os, contextID, selector, isInstance),
                               heldMethod(contextID, selector, isInstance))

\* A class and an instance property under its handle were written: the
\* property is absent as a class property, the name absent as a protocol.
C9_Witness ==
  /\ StreamCurrent
  /\ \E c \in ctxLog, name \in PropertyNames :
       /\ c[2] = 0
       /\ heldContext(c[1], 1) = <<>>
       /\ lookupObjCProtocol(os, c[1]) = Absent
       /\ heldProperty(c[3], name, TRUE) # <<>>
       /\ heldProperty(c[3], name, FALSE) = <<>>
       /\ lookupObjCProperty(os, c[3], name, TRUE).status = "found"
       /\ lookupObjCProperty(os, c[3], name, FALSE) = Absent

-----------------------------------------------------------------------------
(* C10 -- Finalization.  As stated: once writeToStream has run, every      *)
(* later call that modifies the writer fails as a contract violation and   *)
(* leaves the writer's state as it was.                                    *)

C10_Finalized ==
  [][(os # <<>> /\ ~WriteToStream)
       => (assertFailed' # "" /\ tables' = tables)]_vars

(* C10, as the code has it: writeToStream does not close the writer.  A    *)
(* later add* call with a key the writer does not hold is accepted and     *)
(* stored, a later addObjCClass / addObjCProtocol adds or merges its       *)
(* record, a later addModuleOptions sets the option; none of them fails.   *)
(* (A designated-initializer method is left out: its own assertion may     *)
(* fail, written stream or not.)                                           *)

\* A call made after writeToStream with a key not held goes through.
Accepted(fresh, call, stored) ==
  (os # <<>> /\ fresh /\ call) => (assertFailed' = "" /\ stored)

C10_StaysOpen ==
  [][/\ \A name \in ClassNames, info \in ContextInputs :
          Accepted(TRUE, AddObjCClass(name, info),
                   <<IdentifierIDs'[name], 0>> \in DOMAIN ObjCContexts')
     /\ \A name \in ProtocolNames, info \in ContextInputs :
          Accepted(TRUE, AddObjCProtocol(name, info),
                   <<IdentifierIDs'[name], 1>> \in DOMAIN ObjCContexts')
     /\ \A contextID \in ContextIDInputs, name \in PropertyNames,
           isInstance \in BOOLEAN, info \in VariableInputs :
          Accepted(heldProperty(contextID, name, isInstance) = <<>>,
                   AddObjCProperty(contextID, name, isInstance, info),
                   /\ ObjCProperties' # ObjCProperties
                   /\ ObjCProperties'[<<contextID, IdentifierIDs'[name],
                                        B2N(isInstance)>>] = info)
     /\ \A contextID \in ContextIDInputs, m \in MethodInputs :
          Accepted(heldMethod(contextID, m[1], m[2]) = <<>>
                     /\ ~m[3].DesignatedInit,
                   AddObjCMethod(contextID, m[1], m[2], m[3]),
                   /\ ObjCMethods' # ObjCMethods
                   /\ m[3] \in Range(ObjCMethods'))
     /\ \A info \in VariableInputs :
          Accepted(heldByName(GlobalVariables, StrA) = <<>>,
                   AddGlobalVariable(StrA, info),
                   GlobalVariables'[IdentifierIDs'[StrA]] = info)
     /\ \A info \in FunctionInputs :
          Accepted(heldByName(GlobalFunctions, StrB) = <<>>,
                   AddGlobalFunction(StrB, info),
                   GlobalFunctions'[IdentifierIDs'[StrB]] = info)
     /\ \A info \in EntityInputs :
          Accepted(heldByName(EnumConstants, StrA) = <<>>,
                   AddEnumConstant(StrA, info),
                   EnumConstants'[IdentifierIDs'[StrA]] = info)
     /\ \A info \in TypeInputs :
          Accepted(heldByName(Tags, StrB) = <<>>, AddTag(StrB, info),
                   Tags'[IdentifierIDs'[StrB]] = info)
     /\ \A info \in TypeInputs :
          Accepted(heldByName(Typedefs, StrA) = <<>>, AddTypedef(StrA, info),
                   Typedefs'[IdentifierIDs'[StrA]] = info)
     /\ \A opts \in ModuleOptionsInputs :
          Accepted(TRUE, AddModuleOptions(opts),
                   SwiftInferImportAsMember' = opts.SwiftInferImportAsMember)
    ]_vars

\* A tag was added after the stream was written: the call went through and
\* the writer holds a tag the stream does not have.
C10_Witness ==
  /\ os # <<>>
  /\ assertFailed = ""
  /\ Tags # EmptyMap
  /\ blockTable(os, "TAG_BLOCK") = {}

-----------------------------------------------------------------------------
(* What a written stream holds. *)

isBlock(item) == item.kind = "block"

\* The IDs of the stream's blocks, in the order they were emitted.
blockIDs(buffer) ==
  LET blocks == SelectSeq(buffer, isBlock)
  IN [k \in 1..Len(blocks) |-> blocks[k].value.id]

\* The records of the stream's first block with the given ID.
blockRecords(buffer, id) ==
  LET found == {i \in 1..Len(buffer) :
                  buffer[i].kind = "block" /\ buffer[i].value.id = id}
  IN IF found = {} THEN <<>>
     ELSE buffer[CHOOSE i \in found : \A j \in found : i <= j].value.records

\* The blocks writeToStream emits, in the order of its calls.
BlockOrder ==
  <<"BLOCKINFO_BLOCK", "CONTROL_BLOCK", "IDENTIFIER_BLOCK",
    "OBJC_CONTEXT_BLOCK", "OBJC_PROPERTY_BLOCK", "OBJC_METHOD_BLOCK",
    "OBJC_SELECTOR_BLOCK", "GLOBAL_VARIABLE_BLOCK", "GLOBAL_FUNCTION_BLOCK",
    "ENUM_CONSTANT_BLOCK", "TAG_BLOCK", "TYPEDEF_BLOCK">>

-----------------------------------------------------------------------------
(* C11 -- Block order.  What one writeToStream call wrote is the           *)
(* signature's bytes, then the block-info block, the control block, the    *)
(* identifier block and the context, property, method, selector,           *)
(* global-variable, global-function, enum-constant, tag and typedef        *)
(* blocks, in this order, each exactly once and nothing before the         *)
(* signature.                                                              *)

C11_BlockOrder ==
  os # <<>> =>
    /\ Len(os) = Len(API_NOTES_SIGNATURE) + Len(BlockOrder)
    /\ \A i \in 1..Len(API_NOTES_SIGNATURE) :
         os[i] = [kind |-> "byte", value |-> API_NOTES_SIGNATURE[i]]
    /\ \A i \in 1..Len(BlockOrder) :
         os[Len(API_NOTES_SIGNATURE) + i].kind = "block"
    /\ blockIDs(os) = BlockOrder

\* A stream written by a writer that holds a method and its selector.
C11_Witness ==
  /\ os # <<>>
  /\ blockRecords(os, "OBJC_METHOD_BLOCK") # <<>>
  /\ blockRecords(os, "OBJC_SELECTOR_BLOCK") # <<>>

-----------------------------------------------------------------------------
(* C12 -- Empty-block compactness.  Each of the identifier, context,       *)
(* property, method, selector, global-variable, global-function,           *)
(* enum-constant, tag and typedef blocks of the written stream holds a     *)
(* hash-table record exactly when the writer's collection is not empty;    *)
(* for an empty collection the block is there with no record, and every    *)
(* lookup of that kind is absent.                                          *)

\* The block is in the stream, with one table record of as many entries as
\* the collection has keys, or with no record when the collection is empty.
Compact(id, keys) ==
  /\ \E i \in 1..Len(os) : os[i].kind = "block" /\ os[i].value.id = id
  /\ (blockRecords(os, id) # <<>>) <=> (keys # {})
  /\ keys = {} => blockTable(os, id) = {}
  /\ keys # {} =>
       /\ Len(blockRecords(os, id)) = 1
       /\ Cardinality(blockTable(os, id)) = Cardinality(keys)

C12_EmptyBlockCompact ==
  StreamCurrent =>
    /\ Compact("IDENTIFIER_BLOCK", DOMAIN IdentifierIDs)
    /\ Compact("OBJC_CONTEXT_BLOCK", DOMAIN ObjCContexts)
    /\ Compact("OBJC_PROPERTY_BLOCK", DOMAIN ObjCProperties)
    /\ Compact("OBJC_METHOD_BLOCK", DOMAIN ObjCMethods)
    /\ Compact("OBJC_SELECTOR_BLOCK", DOMAIN SelectorIDs)
    /\ Compact("GLOBAL_VARIABLE_BLOCK", DOMAIN GlobalVariables)
    /\ Compact("GLOBAL_FUNCTION_BLOCK", DOMAIN GlobalFunctions)
    /\ Compact("ENUM_CONSTANT_BLOCK", DOMAIN EnumConstants)
    /\ Compact("TAG_BLOCK", DOMAIN Tags)
    /\ Compact("TYPEDEF_BLOCK", DOMAIN Typedefs)
    /\ \A name \in LookupNames :
         /\ DOMAIN ObjCContexts = {} =>
              /\ lookupObjCClass(os, name) = Absent
              /\ lookupObjCProtocol(os, name) = Absent
         /\ DOMAIN GlobalVariables = {} =>
              lookupGlobalVariable(os, name) = Absent
         /\ DOMAIN GlobalFunctions = {} =>
              lookupGlobalFunction(os, name) = Absent
         /\ DOMAIN EnumConstants = {} => lookupEnumConstant(os, name) = Absent
         /\ DOMAIN Tags = {} => lookupTag(os, name) = Absent
         /\ DOMAIN Typedefs = {} => lookupTypedef(os, name) = Absent
         /\ DOMAIN ObjCProperties = {} =>
              \A contextID \in ContextIDInputs, isInstance \in BOOLEAN :
                lookupObjCProperty(os, contextID, name, isInstance) = Absent
    /\ DOMAIN ObjCMethods = {} =>
         \A contextID \in ContextIDInputs, selector \in SelectorInputs,
            isInstance \in BOOLEAN :
           lookupObjCMethod(os, contextID, selector, isInstance) = Absent

\* A stream written with a context and no tag: the tag block is empty, the
\* context block has its table, a tag lookup of an interned name is absent.
C12_Witness ==
  /\ StreamCurrent
  /\ Tags = EmptyMap
  /\ blockRecords(os, "TAG_BLOCK") = <<>>
  /\ blockRecords(os, "OBJC_CONTEXT_BLOCK") # <<>>
  /\ \E name \in DOMAIN IdentifierIDs : lookupTag(os, name) = Absent

-----------------------------------------------------------------------------
(* C13 -- Module options record.  The control block of the written stream  *)
(* holds the version record, then the module-name record, and after them a *)
(* module-options record exactly when infer-import-as-member is set in the *)
(* options in force; the options in force are those of the most recent     *)
(* addModuleOptions call, and unset when there was none.                   *)

recordCodes(records) == [i \in 1..Len(records) |-> records[i].code]

ControlBlockAsOptions ==
  StreamCurrent =>
    /\ recordCodes(blockRecords(os, "CONTROL_BLOCK")) =
         IF SwiftInferImportAsMember
         THEN <<"METADATA", "MODULE_NAME", "MODULE_OPTIONS">>
         ELSE <<"METADATA", "MODULE_NAME">>
    /\ blockRecords(os, "CONTROL_BLOCK")[2].value = ModuleName

OptionsInForce ==
  /\ \A opts \in ModuleOptionsInputs :
       AddModuleOptions(opts) =>
         SwiftInferImportAsMember' = opts.SwiftInferImportAsMember
  /\ SwiftInferImportAsMember' # SwiftInferImportAsMember =>
       \E opts \in ModuleOptionsInputs : AddModuleOptions(opts)

C13_ModuleOptionsRecord ==
  /\ (~SwiftInferImportAsMember /\ calls = 0)
  /\ []ControlBlockAsOptions
  /\ [][OptionsInForce]_vars

\* The option was set and the stream written: three records.
C13_Witness ==
  /\ StreamCurrent
  /\ SwiftInferImportAsMember
  /\ Len(blockRecords(os, "CONTROL_BLOCK")) = 3

-----------------------------------------------------------------------------
\* The entry of the block-info directory that names block `id`, as a
\* sequence: empty when the directory does not name the block.
directoryEntry(buffer, id) ==
  LET dir == blockRecords(buffer, "BLOCKINFO_BLOCK")
  IN  SelectSeq(dir, LAMBDA d : d.block = id)

\* The block-info directory names block `id` and every record in `records`.
namedInDirectory(buffer, id, records) ==
  /\ directoryEntry(buffer, id) # <<>>
  /\ \A r \in 1..Len(records) :
       records[r].code \in Range(directoryEntry(buffer, id)[1].records)

\* C14: the block-info directory written by writeToStream names every
\* block that the stream holds after it (control, identifier, context,
\* property, method, selector, global variable, global function, enum
\* constant, tag, typedef) and every record that appears inside those
\* blocks, the module options record included.
C14_BlockInfoComplete ==
  os # <<>> =>
    \A i \in 1..Len(os) :
      (isBlock(os[i]) /\ os[i].value.id # "BLOCKINFO_BLOCK") =>
        namedInDirectory(os, os[i].value.id, os[i].value.records)

-----------------------------------------------------------------------------
\* Buffers that differ from `buffer` in the value of one leading byte.
corruptedSignature(buffer) ==
  { [buffer EXCEPT ![i] = ByteItem((buffer[i].value + d) % 256)] :
      i \in 1..Len(API_NOTES_SIGNATURE), d \in {1, 128} }

\* The proper prefixes of the signature, and the stream without its
\* first byte: buffers that do not start with the signature.
truncatedSignature(buffer) ==
  { SubSeq(buffer, 1, n) : n \in 0..(Len(API_NOTES_SIGNATURE) - 1) }
    \cup { Tail(buffer) }

-----------------------------------------------------------------------------
\* ObjCContexts without the record of `key`.
contextsWithout(key) ==
  [k \in DOMAIN ObjCContexts \ {key} |-> ObjCContexts[k]]

\* The record of `key` after add(first) then add(second) on a writer that
\* does not hold the key.
addedInOrder(key, first, second) ==
  addContextRecord(addContextRecord(contextsWithout(key), key, first),
                   key, second)[key]

\* A context that holds exactly the info A of one addition is added again
\* with info B.
SecondAddition(name, kind, B) ==
  /\ heldContext(name, kind) # <<>>
  /\ heldContext(name, kind)[1].info \in ContextInputs
  /\ IF kind = 0 THEN AddObjCClass(name, B) ELSE AddObjCProtocol(name, B)

-----------------------------------------------------------------------------
\* C17: writeToStream changes none of the module name, module options,
\* identifier table, selector table, context map, reverse context map or
\* entity maps, and fails no assertion; so a writeToStream call on a writer
\* whose stream is that of the previous writeToStream call, with no add*
\* call in between, emits exactly the same blocks and entries again.
C17_WriteIsPure ==
  [][WriteToStream =>
       /\ tables' = tables
       /\ assertFailed' = assertFailed
       /\ (StreamCurrent => os' = os)
    ]_vars

\* A context and a method were added and the stream written: the third
\* call left the tables as the two additions made them.
C17_Witness ==
  /\ StreamCurrent
  /\ calls = MaxCalls
  /\ ObjCContexts # EmptyMap
  /\ ObjCMethods # EmptyMap
  /\ blockRecords(os, "OBJC_CONTEXT_BLOCK") # <<>>

-----------------------------------------------------------------------------
\* A call made with a known key leaves every table of the writer, and the
\* stream, as they were.
Intact(duplicate, call) ==
  (duplicate /\ call) => (tables' = tables /\ os' = os)

\* C19: an add of a Property, Method, GlobalVariable, GlobalFunction,
\* EnumConstant, Tag or Typedef that is rejected because its key is already
\* present leaves the identifier table, the selector table, the record
\* stored for that key, every context record (and the reverse context map)
\* and every other entity map exactly as they were before the call.
C19_RejectedAddIntact ==
  [][/\ \A contextID \in ContextIDInputs, name \in PropertyNames,
           isInstance \in BOOLEAN, info \in VariableInputs :
          Intact(heldProperty(contextID, name, isInstance) # <<>>,
                 AddObjCProperty(contextID, name, isInstance, info))
     /\ \A contextID \in ContextIDInputs, m \in MethodInputs :
          Intact(heldMethod(contextID, m[1], m[2]) # <<>>,
                 AddObjCMethod(contextID, m[1], m[2], m[3]))
     /\ \A info \in VariableInputs :
          Intact(heldByName(GlobalVariables, StrA) # <<>>,
                 AddGlobalVariable(StrA, info))
     /\ \A info \in FunctionInputs :
          Intact(heldByName(GlobalFunctions, StrB) # <<>>,
                 AddGlobalFunction(StrB, info))
     /\ \A info \in EntityInputs :
          Intact(heldByName(EnumConstants, StrA) # <<>>,
                 AddEnumConstant(StrA, info))
     /\ \A info \in TypeInputs :
          Intact(heldByName(Tags, StrB) # <<>>, AddTag(StrB, info))
     /\ \A info \in TypeInputs :
          Intact(heldByName(Typedefs, StrA) # <<>>, AddTypedef(StrA, info))
    ]_vars

\* A tag was added twice after a context: the second addTag was rejected
\* with one tag, one context and their identifiers held.
C19_Witness ==
  /\ assertFailed = "addTag"
  /\ Cardinality(DOMAIN Tags) = 1
  /\ ObjCContexts # EmptyMap
  /\ IdentifierIDs # EmptyMap

-----------------------------------------------------------------------------
\* C20: addObjCMethod(H, ...) creates no context record and changes no
\* context record other than the one whose handle is H; when
\* info.DesignatedInit is not set it changes no context record at all.  So
\* when a class and a protocol share a name, adding a designated
\* initializer under the protocol's handle leaves the class's record as it
\* was.
C20_MethodContextFrame ==
  [][\A contextID \in ContextIDInputs, m \in MethodInputs :
       AddObjCMethod(contextID, m[1], m[2], m[3])
       => /\ DOMAIN ObjCContexts' = DOMAIN ObjCContexts
          /\ \A key \in DOMAIN ObjCContexts :
               ObjCContexts[key].id # contextID
               => ObjCContexts'[key] = ObjCContexts[key]
          /\ ~m[3].DesignatedInit => ObjCContexts' = ObjCContexts
    ]_vars

-----------------------------------------------------------------------------
(* InMemoryOutputFileSystem.  Every operation takes llvm::MutexGuard        *)
(* locked(Mu) as its first statement that touches a field and holds it to   *)
(* its return; the calls of two threads interleave statement by statement.  *)
(* OutputFiles is an llvm::vfs::InMemoryFileSystem, kept here as the files  *)
(* added to it, each under the working directory and path it was added     *)
(* with, and its working directory.                                         *)

MaxOps == 3

RemoveKey(map, k) == [x \in DOMAIN map \ {k} |-> map[x]]

FileSystemOverrides ==
  {"status", "openFileForRead", "dir_begin", "setCurrentWorkingDirectory",
   "getCurrentWorkingDirectory", "getRealPath"}

\* The temporary paths CreateTemporaryBuffer can hand out: OutputPath-suffix,
\* the suffix below the number of buffers the threads can create.
TemporaryPaths ==
  {<<p, n>> : p \in Paths, n \in 0..(Cardinality(Threads) * MaxOps - 1)}

\* The calls: the overrides on any path or directory, CreateTemporaryBuffer
\* on any output path, DeleteTemporaryBuffer and FinalizeTemporaryBuffer on
\* a temporary path.
Calls ==
  {[op |-> o, path |-> p, temp |-> <<>>, dir |-> "", suffix |-> 0] :
     o \in {"status", "openFileForRead", "getRealPath",
            "CreateTemporaryBuffer"}, p \in Paths}
  \cup {[op |-> o, path |-> "", temp |-> <<>>, dir |-> d, suffix |-> 0] :
          o \in {"dir_begin", "setCurrentWorkingDirectory"}, d \in Dirs}
  \cup {[op |-> "getCurrentWorkingDirectory", path |-> "", temp |-> <<>>,
         dir |-> "", suffix |-> 0]}
  \cup {[op |-> "DeleteTemporaryBuffer", path |-> "", temp |-> x,
         dir |-> "", suffix |-> 0] : x \in TemporaryPaths}
  \cup {[op |-> "FinalizeTemporaryBuffer", path |-> p, temp |-> x,
         dir |-> "", suffix |-> 0] : p \in Paths, x \in TemporaryPaths}

\* The calls thread t can make: DeleteTemporaryBuffer and
\* FinalizeTemporaryBuffer only on a temporary path it was handed.
CallsOf(t) == {c \in Calls : c.temp = <<>> \/ c.temp \in owned[t]}

\* OutputFiles->addFile: a file that already exists keeps its contents.
addFile(out, path, bytes) ==
  IF <<out.cwd, path>> \in DOMAIN out.files
  THEN out
  ELSE [out EXCEPT !.files = SetKey(@, <<out.cwd, path>>, bytes)]

\* What OutputFiles returns to one of the six overrides, and what it is
\* afterwards.
delegate(out, c) ==
  CASE c.op = "status" ->
         [out |-> out,
          ret |-> <<"status", <<out.cwd, c.path>> \in DOMAIN out.files>>]
    [] c.op = "openFileForRead" ->
         [out |-> out,
          ret |-> IF <<out.cwd, c.path>> \in DOMAIN out.files
                  THEN <<"file", out.files[<<out.cwd, c.path>>]>>
                  ELSE <<"no_such_file">>]
    [] c.op = "dir_begin" ->
         [out |-> out,
          ret |-> <<"entries",
                    {f[2] : f \in {g \in DOMAIN out.files : g[1] = c.dir}}>>]
    [] c.op = "setCurrentWorkingDirectory" ->
         [out |-> [out EXCEPT !.cwd = c.dir], ret |-> <<"ok">>]
    [] c.op = "getCurrentWorkingDirectory" ->
         [out |-> out, ret |-> <<"cwd", out.cwd>>]
    [] c.op = "getRealPath" ->
         [out |-> out, ret |-> <<"path", out.cwd, c.path>>]

\* The first suffix, counting from 0, for which OutputPath-suffix is not a
\* key of the temporary buffers.
firstFreeSuffix(temps, path) ==
  CHOOSE n \in 0..Cardinality(DOMAIN temps) :
    /\ <<path, n>> \notin DOMAIN temps
    /\ \A m \in 0..(n - 1) : <<path, m>> \in DOMAIN temps

\* The whole of call c run with no other call in progress, on the fields
\* `fields`: the fields afterwards and the value returned.
runAlone(fields, c) ==
  CASE c.op \in FileSystemOverrides ->
         [temps |-> fields.temps,
          out |-> delegate(fields.out, c).out,
          ret |-> delegate(fields.out, c).ret]
    [] c.op = "CreateTemporaryBuffer" ->
         LET temp == <<c.path, firstFreeSuffix(fields.temps, c.path)>>
         IN  [temps |-> SetKey(fields.temps, temp, <<>>),
              out |-> fields.out,
              ret |-> temp]
    [] c.op = "DeleteTemporaryBuffer" ->
         [temps |-> RemoveKey(fields.temps, c.temp),
          out |-> fields.out,
          ret |-> <<"void">>]
    [] c.op = "FinalizeTemporaryBuffer" ->
         [temps |-> RemoveKey(fields.temps, c.temp),
          out |-> IF c.temp \in DOMAIN fields.temps
                  THEN addFile(fields.out, c.path, fields.temps[c.temp])
                  ELSE fields.out,
          ret |-> <<"void">>]

\* Thread t starts call c and goes on to its body.
Enter(t, c) ==
  /\ fsAssertFailed = ""
  /\ pc[t] = "idle"
  /\ ops[t] < MaxOps
  /\ c \in CallsOf(t)
  /\ Mu' = t
  /\ pc' = [pc EXCEPT ![t] = "locked"]
  /\ inCall' = [inCall EXCEPT ![t] = c]
  /\ owned' = [owned EXCEPT ![t] = @ \ {c.temp}]
  /\ linear' = [temps |-> runAlone(linear, c).temps,
                out |-> runAlone(linear, c).out]
  /\ expect' = [expect EXCEPT ![t] = runAlone(linear, c).ret]
  /\ UNCHANGED <<TemporaryBuffers, OutputFiles, ret, ops, fsAssertFailed>>
  /\ UNCHANGED <<vars, emitVars, parserVars, scanVars>>

\* A body entered without waiting for the mutex.
LockUnguarded(t, c) == Enter(t, c)

\* llvm::MutexGuard locked(Mu): the thread waits until the mutex is free.
Lock(t, c) == Mu = 0 /\ Enter(t, c)

\* return OutputFiles-><override>(...), under the lock.
Delegate(t) ==
  /\ fsAssertFailed = ""
  /\ pc[t] = "locked"
  /\ inCall[t].op \in FileSystemOverrides
  /\ OutputFiles' = delegate(OutputFiles, inCall[t]).out
  /\ ret' = [ret EXCEPT ![t] = delegate(OutputFiles, inCall[t]).ret]
  /\ pc' = [pc EXCEPT ![t] = "unlock"]
  /\ UNCHANGED <<Mu, TemporaryBuffers, inCall, ops, owned, fsAssertFailed,
                 linear, expect>>
  /\ UNCHANGED <<vars, emitVars, parserVars, scanVars>>

\* One turn of the loop of CreateTemporaryBuffer: try_emplace of
\* OutputPath-suffix, then suffix += 1; the loop ends once inserted.
TryEmplace(t) ==
  /\ fsAssertFailed = ""
  /\ pc[t] = "locked"
  /\ inCall[t].op = "CreateTemporaryBuffer"
  /\ LET temp == <<inCall[t].path, inCall[t].suffix>>
     IN IF temp \notin DOMAIN TemporaryBuffers
        THEN /\ TemporaryBuffers' = SetKey(TemporaryBuffers, temp, <<>>)
             /\ ret' = [ret EXCEPT ![t] = temp]
             /\ pc' = [pc EXCEPT ![t] = "unlock"]
             /\ UNCHANGED inCall
        ELSE /\ inCall' = [inCall EXCEPT ![t].suffix = @ + 1]
             /\ UNCHANGED <<TemporaryBuffers, ret, pc>>
  /\ UNCHANGED <<Mu, OutputFiles, ops, owned, fsAssertFailed, linear, expect>>
  /\ UNCHANGED <<vars, emitVars, parserVars, scanVars>>

\* auto it = TemporaryBuffers.find(TemporaryPath);
\* assert(it != TemporaryBuffers.end());
Find(t) ==
  /\ fsAssertFailed = ""
  /\ pc[t] = "locked"
  /\ inCall[t].op \in {"DeleteTemporaryBuffer", "FinalizeTemporaryBuffer"}
  /\ IF inCall[t].temp \in DOMAIN TemporaryBuffers
     THEN /\ pc' = [pc EXCEPT ![t] = "found"]
          /\ UNCHANGED fsAssertFailed
     ELSE /\ fsAssertFailed' = inCall[t].op
          /\ UNCHANGED pc
  /\ UNCHANGED <<Mu, TemporaryBuffers, OutputFiles, inCall, ret, ops, owned,
                 linear, expect>>
  /\ UNCHANGED <<vars, emitVars, parserVars, scanVars>>

\* getMemBufferCopy of the buffer and OutputFiles->addFile(OutputPath, ...).
AddFile(t) ==
  /\ fsAssertFailed = ""
  /\ pc[t] = "found"
  /\ inCall[t].op = "FinalizeTemporaryBuffer"
  /\ inCall[t].temp \in DOMAIN TemporaryBuffers
  /\ OutputFiles' = addFile(OutputFiles, inCall[t].path,
                            TemporaryBuffers[inCall[t].temp])
  /\ pc' = [pc EXCEPT ![t] = "copied"]
  /\ UNCHANGED <<Mu, TemporaryBuffers, inCall, ret, ops, owned,
                 fsAssertFailed, linear, expect>>
  /\ UNCHANGED <<vars, emitVars, parserVars, scanVars>>

\* TemporaryBuffers.erase(it), the last statement of Delete- and
\* FinalizeTemporaryBuffer.
Erase(t) ==
  /\ fsAssertFailed = ""
  /\ \/ pc[t] = "found" /\ inCall[t].op = "DeleteTemporaryBuffer"
     \/ pc[t] = "copied" /\ inCall[t].op = "FinalizeTemporaryBuffer"
  /\ TemporaryBuffers' = RemoveKey(TemporaryBuffers, inCall[t].temp)
  /\ ret' = [ret EXCEPT ![t] = <<"void">>]
  /\ pc' = [pc EXCEPT ![t] = "unlock"]
  /\ UNCHANGED <<Mu, OutputFiles, inCall, ops, owned, fsAssertFailed,
                 linear, expect>>
  /\ UNCHANGED <<vars, emitVars, parserVars, scanVars>>

\* The return: ~MutexGuard releases the mutex and the caller has the value;
\* the caller of CreateTemporaryBuffer has its temporary path.
Unlock(t) ==
  /\ fsAssertFailed = ""
  /\ pc[t] = "unlock"
  /\ Mu' = 0
  /\ pc' = [pc EXCEPT ![t] = "idle"]
  /\ ops' = [ops EXCEPT ![t] = @ + 1]
  /\ owned' = [owned EXCEPT
                 ![t] = IF inCall[t].op = "CreateTemporaryBuffer"
                        THEN @ \cup {ret[t]} ELSE @]
  /\ inCall' = [inCall EXCEPT ![t] = NoCall]
  /\ ret' = [ret EXCEPT ![t] = NoRet]
  /\ expect' = [expect EXCEPT ![t] = NoRet]
  /\ UNCHANGED <<TemporaryBuffers, OutputFiles, fsAssertFailed, linear>>
  /\ UNCHANGED <<vars, emitVars, parserVars, scanVars>>

\* A write through the raw_svector_ostream that CreateTemporaryBuffer
\* returned: it appends to the buffer of the thread's temporary path and
\* takes no lock.
StreamWrite(t, temp) ==
  /\ fsAssertFailed = ""
  /\ pc[t] = "idle"
  /\ ops[t] < MaxOps
  /\ temp \in owned[t]
  /\ temp \in DOMAIN TemporaryBuffers
  /\ TemporaryBuffers' = [TemporaryBuffers EXCEPT ![temp] = Append(@, t)]
  /\ linear' = [linear EXCEPT
                  !.temps = IF temp \in DOMAIN @
                            THEN [@ EXCEPT ![temp] = Append(@, t)] ELSE @]
  /\ ops' = [ops EXCEPT ![t] = @ + 1]
  /\ UNCHANGED <<Mu, OutputFiles, pc, inCall, ret, owned, fsAssertFailed,
                 expect>>
  /\ UNCHANGED <<vars, emitVars, parserVars, scanVars>>

NextFS ==
  \/ \E t \in Threads, c \in Calls : Lock(t, c)
  \/ \E t \in Threads : Delegate(t)
  \/ \E t \in Threads : TryEmplace(t)
  \/ \E t \in Threads : Find(t)
  \/ \E t \in Threads : AddFile(t)
  \/ \E t \in Threads : Erase(t)
  \/ \E t \in Threads : Unlock(t)
  \/ \E t \in Threads, temp \in TemporaryPaths : StreamWrite(t, temp)

SpecFS == Init /\ [][NextFS]_<<vars, fsVars>>

-----------------------------------------------------------------------------
\* C18: every operation of InMemoryOutputFileSystem (the six FileSystem
\* overrides and the create, delete and finalize operations on temporary
\* buffers) runs its body while holding Mu, so no two operations are in
\* their bodies at once, and any concurrent execution is equivalent to the
\* calls run one at a time in the order they took the mutex: every call
\* returns what it returns run alone in that order, the fields between
\* calls are what that order leaves, and no assertion fails.
C18_ThreadSafe ==
  /\ \A t \in Threads : pc[t] # "idle" => Mu = t
  /\ Cardinality({t \in Threads : pc[t] # "idle"}) <= 1
  /\ \A t \in Threads : pc[t] = "unlock" => ret[t] = expect[t]
  /\ (\A t \in Threads : pc[t] = "idle") =>
       /\ Mu = 0
       /\ TemporaryBuffers = linear.temps
       /\ OutputFiles = linear.out
  /\ fsAssertFailed = ""

\* Thread 1 is in the body of FinalizeTemporaryBuffer while thread 2, which
\* created a buffer for the same output path, is between calls.
C18_Witness ==
  /\ pc[1] = "found"
  /\ inCall[1].op = "FinalizeTemporaryBuffer"
  /\ Mu = 1
  /\ pc[2] = "idle"
  /\ owned[2] # {}
  /\ Cardinality(DOMAIN TemporaryBuffers) = 2

-----------------------------------------------------------------------------
\* An identifier ID is the reserved 0 or an ID the identifier table holds.
internedID(id) == id = 0 \/ id \in Range(IdentifierIDs)

\* C21: in every reachable writer state, every identifier ID in a context
\* key, a property key, a global variable, global function, enum constant,
\* tag or typedef key, a stored selector's piece list or the reverse
\* context map is 0 or an ID held by the identifier table, and every
\* selector ID in a method key is an ID held by the selector table.
C21_InterningPrecedesKeying ==
  /\ \A key \in DOMAIN ObjCContexts : internedID(key[1])
  /\ \A key \in DOMAIN ObjCProperties : internedID(key[2])
  /\ \A id \in DOMAIN GlobalVariables \cup DOMAIN GlobalFunctions
              \cup DOMAIN EnumConstants \cup DOMAIN Tags \cup DOMAIN Typedefs :
       internedID(id)
  /\ \A selector \in DOMAIN SelectorIDs :
       \A i \in DOMAIN selector.Identifiers :
         internedID(selector.Identifiers[i])
  /\ \A handle \in DOMAIN ObjCContextNames :
       internedID(ObjCContextNames[handle])
  /\ \A key \in DOMAIN ObjCMethods : key[2] \in Range(SelectorIDs)

\* A context, a method under it and a tag are held, all keyed by IDs other
\* than 0.
C21_Witness ==
  /\ assertFailed = ""
  /\ \E key \in DOMAIN ObjCContexts : key[1] # 0
  /\ \E key \in DOMAIN ObjCMethods :
       \E selector \in DOMAIN SelectorIDs :
         /\ SelectorIDs[selector] = key[2]
         /\ selector.Identifiers # <<>>
  /\ \E id \in DOMAIN Tags : id # 0

-----------------------------------------------------------------------------
\* addObjCClass or addObjCProtocol has returned handle h.
Issued(h) == \E c \in ctxLog : c[3] = h

UnissuedHandlePassed ==
  \E contextID \in ContextIDInputs :
    /\ ~Issued(contextID)
    /\ \/ \E name \in PropertyNames, isInstance \in BOOLEAN,
             info \in VariableInputs :
            AddObjCProperty(contextID, name, isInstance, info)
       \/ \E m \in MethodInputs : AddObjCMethod(contextID, m[1], m[2], m[3])

-----------------------------------------------------------------------------
\* C23: in every reachable writer state the domain of the reverse map
\* ObjCContextNames is exactly the set of handles stored in the context
\* map, and the reverse map sends the handle of every context entry
\* (identifier ID, kind) to that identifier ID; no operation, addObjCMethod
\* with a designated initializer included, leaves a reverse-map entry
\* without a context.
C23_ReverseMapConsistent ==
  /\ DOMAIN ObjCContextNames =
       {ObjCContexts[key].id : key \in DOMAIN ObjCContexts}
  /\ \A key \in DOMAIN ObjCContexts :
       ObjCContextNames[ObjCContexts[key].id] = key[1]

-----------------------------------------------------------------------------
\* The handles of the stored contexts.
storedHandles == {ObjCContexts[key].id : key \in DOMAIN ObjCContexts}

\* C24: classes and protocols share one handle space: in every reachable
\* writer state the handles of the n stored contexts are pairwise distinct
\* and are exactly 1..n, a class and a protocol of the same name have
\* different handles, handle 0 is never issued, and every handle returned
\* is the handle of a stored context.
C24_HandlesDense ==
  /\ storedHandles = 1..Cardinality(DOMAIN ObjCContexts)
  /\ \A a, b \in DOMAIN ObjCContexts :
       ObjCContexts[a].id = ObjCContexts[b].id => a = b
  /\ \A a, b \in DOMAIN ObjCContexts :
       (a[1] = b[1] /\ a[2] # b[2]) => ObjCContexts[a].id # ObjCContexts[b].id
  /\ 0 \notin storedHandles
  /\ \A c \in ctxLog : c[3] # 0 /\ c[3] \in storedHandles

\* A class and a protocol of one name are held, under the handles 1 and 2.
C24_Witness ==
  /\ assertFailed = ""
  /\ \E a, b \in DOMAIN ObjCContexts :
       /\ a[1] = b[1]
       /\ a[2] = 0
       /\ b[2] = 1
       /\ {ObjCContexts[a].id, ObjCContexts[b].id} = {1, 2}

-----------------------------------------------------------------------------
\* C25: once a string has an identifier ID, a selector a selector ID, or a
\* (name, kind) context a handle, the next state of the writer holds that
\* mapping with the same value, whichever call made the step (an add*,
\* addModuleOptions or writeToStream); so no entry is ever removed or
\* renumbered and the sizes of the three tables never decrease.
C25_NoEviction ==
  [][/\ \A s \in DOMAIN IdentifierIDs :
          s \in DOMAIN IdentifierIDs' /\ IdentifierIDs'[s] = IdentifierIDs[s]
     /\ \A s \in DOMAIN SelectorIDs :
          s \in DOMAIN SelectorIDs' /\ SelectorIDs'[s] = SelectorIDs[s]
     /\ \A key \in DOMAIN ObjCContexts :
          /\ key \in DOMAIN ObjCContexts'
          /\ ObjCContexts'[key].id = ObjCContexts[key].id
     /\ Cardinality(DOMAIN IdentifierIDs') >= Cardinality(DOMAIN IdentifierIDs)
     /\ Cardinality(DOMAIN SelectorIDs') >= Cardinality(DOMAIN SelectorIDs)
     /\ Cardinality(DOMAIN ObjCContexts') >= Cardinality(DOMAIN ObjCContexts)
    ]_vars

\* Two strings, a selector and a context are held after three calls, the
\* stream written last.
C25_Witness ==
  /\ os # <<>>
  /\ calls = MaxCalls
  /\ Cardinality(DOMAIN IdentifierIDs) >= 2
  /\ SelectorIDs # EmptyMap
  /\ ObjCContexts # EmptyMap

-----------------------------------------------------------------------------
(* One item of each on-disk table, emitted on its own.  The generator      *)
(* calls the table's info object three times for an item: EmitKeyDataLength *)
(* writes the two 16-bit lengths, EmitKey the key and EmitData the payload. *)

\* The length of a string that no longer fits the 16-bit data length.
LongLen == 65531

LongStr == [i \in 1..LongLen |-> 65]

EmitStrings == <<EmptyStr, StrBad, LongStr>>

EmitTables ==
  {"Identifier", "ObjCContext", "ObjCProperty", "ObjCMethod", "ObjCSelector",
   "GlobalVariable", "GlobalFunction", "EnumConstant", "Tag", "Typedef"}

EntityTables == EmitTables \ {"Identifier", "ObjCSelector"}

\* The bytes EmitData writes before the common entity info.
entityOffset(table) == IF table = "ObjCContext" THEN 4 ELSE 0

sampleEntity(m, n, sp, un, us) ==
  CommonEntityInfo(EmitStrings[m], un, us, sp,
                   IF n = 1 THEN EmptyStr ELSE StrB)

sampleKey(table, m, n) ==
  CASE table = "Identifier" ->
         (IF n = 1 THEN StrA ELSE StrB) \o EmitStrings[m]
    [] table = "ObjCContext" -> <<1, 0>>
    [] table \in {"ObjCProperty", "ObjCMethod"} -> <<1, 2, 1>>
    [] table = "ObjCSelector" ->
         ObjCSelectorRef(n - 1, IF n = 1 THEN <<1>> ELSE <<1, 2>>)
    [] OTHER -> 1

sampleData(table, m, n, sp, un, us) ==
  LET entity == sampleEntity(m, n, sp, un, us)
      type == CommonTypeInfo(entity, StrA, IF n = 1 THEN EmptyStr ELSE StrB)
      function ==
        FunctionInfo(entity, TRUE, 1, 5,
                     IF n = 1 THEN <<>>
                     ELSE <<ParamInfo(FALSE, <<1>>), ParamInfo(TRUE, <<>>)>>)
  IN CASE table \in {"Identifier", "ObjCSelector"} -> 1
       [] table = "ObjCContext" ->
            [id |-> 1, info |-> ObjCContextInfo(type, <<1>>, TRUE)]
       [] table \in {"ObjCProperty", "GlobalVariable"} ->
            VariableInfo(entity, <<1>>)
       [] table = "ObjCMethod" -> ObjCMethodInfo(function, TRUE, FALSE, FALSE)
       [] table = "GlobalFunction" -> function
       [] table = "EnumConstant" -> entity
       [] OTHER -> type

EmitKeyDataLength(table, key, data) ==
  CASE table = "Identifier" -> IdentifierKeyDataLength(key, data)
    [] table = "ObjCContext" -> ObjCContextKeyDataLength(key, data)
    [] table = "ObjCProperty" -> ObjCPropertyKeyDataLength(key, data)
    [] table = "ObjCMethod" -> ObjCMethodKeyDataLength(key, data)
    [] table = "ObjCSelector" -> ObjCSelectorKeyDataLength(key, data)
    [] table = "GlobalVariable" -> GlobalVariableKeyDataLength(key, data)
    [] table = "GlobalFunction" -> GlobalFunctionKeyDataLength(key, data)
    [] table = "EnumConstant" -> EnumConstantKeyDataLength(key, data)
    [] table = "Tag" -> TagKeyDataLength(key, data)
    [] OTHER -> TypedefKeyDataLength(key, data)

EmitKey(table, key) ==
  CASE table = "Identifier" -> IdentifierEmitKey(key)
    [] table = "ObjCContext" -> ObjCContextEmitKey(key)
    [] table = "ObjCProperty" -> ObjCPropertyEmitKey(key)
    [] table = "ObjCMethod" -> ObjCMethodEmitKey(key)
    [] table = "ObjCSelector" -> ObjCSelectorEmitKey(key)
    [] OTHER -> NameIDEmitKey(key)

EmitData(table, key, data) ==
  CASE table = "Identifier" -> IdentifierEmitData(key, data)
    [] table = "ObjCContext" -> ObjCContextEmitData(key, data)
    [] table = "ObjCProperty" -> ObjCPropertyEmitData(key, data)
    [] table = "ObjCMethod" -> ObjCMethodEmitData(key, data)
    [] table = "ObjCSelector" -> ObjCSelectorEmitData(key, data)
    [] table = "GlobalVariable" -> GlobalVariableEmitData(key, data)
    [] table = "GlobalFunction" -> GlobalFunctionEmitData(key, data)
    [] table = "EnumConstant" -> EnumConstantEmitData(key, data)
    [] table = "Tag" -> TagEmitData(key, data)
    [] OTHER -> TypedefEmitData(key, data)

\* The generator emits one item: the two lengths as 16-bit integers, then
\* the key, then the data.
EmitItem(table, m, n, sp, un, us) ==
  LET key == sampleKey(table, m, n)
      data == sampleData(table, m, n, sp, un, us)
      lengths == EmitKeyDataLength(table, key, data)
      keyBytes == EmitKey(table, key)
      dataBytes_ == EmitData(table, key, data)
  IN /\ emitTable = ""
     /\ emitTable' = table
     /\ emitPrefix' = LE16(lengths[1]) \o LE16(lengths[2])
     /\ emitKeyLen' = Len(keyBytes)
     /\ emitDataLen' = Len(dataBytes_)
     /\ emitFlags' = IF table \in EntityTables THEN <<sp, un, us>> ELSE <<>>
     /\ emitFlagByte' = IF table \in EntityTables
                        THEN dataBytes_[entityOffset(table) + 1] ELSE -1
     /\ UNCHANGED <<vars, fsVars, parserVars, scanVars>>

NextEmit ==
  \E table \in EmitTables, m \in 1..3, n \in 1..2, sp, un, us \in BOOLEAN :
    EmitItem(table, m, n, sp, un, us)

SpecEmit == Init /\ [][NextEmit]_emitVars

\* C26: the two 16-bit lengths EmitKeyDataLength wrote are the numbers of
\* bytes EmitKey and EmitData wrote for the item, whatever the lengths of
\* the item's strings and parameter list.
C26_PrefixesMatch ==
  emitTable # "" =>
    /\ Len(emitPrefix) = 4
    /\ emitPrefix[1] + 256 * emitPrefix[2] = emitKeyLen
    /\ emitPrefix[3] + 256 * emitPrefix[4] = emitDataLen


\* C27: the first byte emitCommonEntityInfo writes has bit 0 =
\* unavailable-in-Swift, bit 1 = unavailable, bit 2 = Swift-private and
\* bits 3..7 zero, so each flag is recovered from its own bit.
C27_FlagByte ==
  emitFlags # <<>> =>
    /\ emitFlagByte \in 0..7
    /\ (emitFlagByte % 2 = 1) <=> emitFlags[3]
    /\ ((emitFlagByte \div 2) % 2 = 1) <=> emitFlags[2]
    /\ ((emitFlagByte \div 4) % 2 = 1) <=> emitFlags[1]

C27_Witness ==
  /\ emitTable = "ObjCContext"
  /\ emitFlags = <<TRUE, FALSE, TRUE>>
  /\ emitFlagByte = 5

-----------------------------------------------------------------------------
(* SelectorParser: finds '@selector' expressions by looking at raw tokens  *)
(* one by one.  A token is its kind and, for a raw identifier, its text;   *)
(* its location is its position in the stream.                             *)

MaxTokens == 8

Token(kind, text) == [kind |-> kind, text |-> text]

TokAt == Token("at", "")

TokLParen == Token("l_paren", "")

TokRParen == Token("r_paren", "")

TokColon == Token("colon", "")

Ident(text) == Token("raw_identifier", text)

\* The non-comment tokens the lexer hands over.
ParserTokens ==
  {TokAt, TokLParen, TokRParen, TokColon, Token("semi", ""),
   Ident("selector"), Ident("a"), Ident("b")}

ParserNames == {<<"a">>, <<"a", "b">>, <<"selector", "a">>}

Moved(state, locations) ==
  [State |-> state, SelectorLocations |-> locations, fault |-> ""]

Faulted(fault) ==
  [State |-> State, SelectorLocations |-> SelectorLocations, fault |-> fault]

\* The end of stateForToken: look for the start of the selector expression.
lookForStart(RawTok) ==
  Moved(IF RawTok.kind = "at" THEN "At" ELSE "None", SelectorLocations)

\* stateForToken not clearing SelectorLocations at the '('.
stateForTokenNoClear(RawTok, location) ==
  CASE State = "None" -> lookForStart(RawTok)
    [] State = "At" ->
         IF RawTok.kind = "raw_identifier" /\ RawTok.text = "selector"
         THEN Moved("Selector", SelectorLocations)
         ELSE lookForStart(RawTok)
    [] State = "Selector" ->
         IF RawTok.kind # "l_paren" THEN lookForStart(RawTok)
         ELSE Moved("ExpectingSelectorPiece", SelectorLocations)
    [] State = "ExpectingSelectorPiece" ->
         IF ~(Len(SelectorLocations) < Len(Name))
         THEN Faulted("Expecting invalid selector piece")
         ELSE IF \/ RawTok.kind # "raw_identifier"
                 \/ RawTok.text # Name[Len(SelectorLocations) + 1]
         THEN lookForStart(RawTok)
         ELSE IF Len(SelectorLocations) + 1 = Len(Name)
         THEN Moved("ExpectingRParenOrColon",
                    Append(SelectorLocations, location))
         ELSE Moved("ExpectingColon", Append(SelectorLocations, location))
    [] State = "ExpectingColon" ->
         IF RawTok.kind = "colon"
         THEN Moved("ExpectingSelectorPiece", SelectorLocations)
         ELSE lookForStart(RawTok)
    [] State = "ExpectingRParenOrColon" ->
         IF RawTok.kind = "colon"
         THEN Moved("ExpectingRParen", SelectorLocations)
         ELSE IF RawTok.kind = "r_paren"
         THEN Moved("Success", SelectorLocations)
         ELSE lookForStart(RawTok)
    [] State = "ExpectingRParen" ->
         IF RawTok.kind = "r_paren" THEN Moved("Success", SelectorLocations)
         ELSE lookForStart(RawTok)
    [] OTHER -> Faulted("should not get here")

\* stateForToken taking any identifier for a selector piece.
stateForTokenAnyPiece(RawTok, location) ==
  CASE State = "None" -> lookForStart(RawTok)
    [] State = "At" ->
         IF RawTok.kind = "raw_identifier" /\ RawTok.text = "selector"
         THEN Moved("Selector", SelectorLocations)
         ELSE lookForStart(RawTok)
    [] State = "Selector" ->
         IF RawTok.kind # "l_paren" THEN lookForStart(RawTok)
         ELSE Moved("ExpectingSelectorPiece", <<>>)
    [] State = "ExpectingSelectorPiece" ->
         IF ~(Len(SelectorLocations) < Len(Name))
         THEN Faulted("Expecting invalid selector piece")
         ELSE IF RawTok.kind # "raw_identifier"
         THEN lookForStart(RawTok)
         ELSE IF Len(SelectorLocations) + 1 = Len(Name)
         THEN Moved("ExpectingRParenOrColon",
                    Append(SelectorLocations, location))
         ELSE Moved("ExpectingColon", Append(SelectorLocations, location))
    [] State = "ExpectingColon" ->
         IF RawTok.kind = "colon"
         THEN Moved("ExpectingSelectorPiece", SelectorLocations)
         ELSE lookForStart(RawTok)
    [] State = "ExpectingRParenOrColon" ->
         IF RawTok.kind = "colon"
         THEN Moved("ExpectingRParen", SelectorLocations)
         ELSE IF RawTok.kind = "r_paren"
         THEN Moved("Success", SelectorLocations)
         ELSE lookForStart(RawTok)
    [] State = "ExpectingRParen" ->
         IF RawTok.kind = "r_paren" THEN Moved("Success", SelectorLocations)
         ELSE lookForStart(RawTok)
    [] OTHER -> Faulted("should not get here")

\* SelectorParser::stateForToken: the next state, SelectorLocations as the
\* call leaves it, and the assertion that failed, if one did.
stateForToken(RawTok, location) ==
  CASE State = "None" -> lookForStart(RawTok)
    [] State = "At" ->
         IF RawTok.kind = "raw_identifier" /\ RawTok.text = "selector"
         THEN Moved("Selector", SelectorLocations)
         ELSE lookForStart(RawTok)
    [] State = "Selector" ->
         IF RawTok.kind # "l_paren" THEN lookForStart(RawTok)
         ELSE Moved("ExpectingSelectorPiece", <<>>)
    [] State = "ExpectingSelectorPiece" ->
         IF ~(Len(SelectorLocations) < Len(Name))
         THEN Faulted("Expecting invalid selector piece")
         ELSE IF \/ RawTok.kind # "raw_identifier"
                 \/ RawTok.text # Name[Len(SelectorLocations) + 1]
         THEN lookForStart(RawTok)
         ELSE IF Len(SelectorLocations) + 1 = Len(Name)
         THEN Moved("ExpectingRParenOrColon",
                    Append(SelectorLocations, location))
         ELSE Moved("ExpectingColon", Append(SelectorLocations, location))
    [] State = "ExpectingColon" ->
         IF RawTok.kind = "colon"
         THEN Moved("ExpectingSelectorPiece", SelectorLocations)
         ELSE lookForStart(RawTok)
    [] State = "ExpectingRParenOrColon" ->
         IF RawTok.kind = "colon"
         THEN Moved("ExpectingRParen", SelectorLocations)
         ELSE IF RawTok.kind = "r_paren"
         THEN Moved("Success", SelectorLocations)
         ELSE lookForStart(RawTok)
    [] State = "ExpectingRParen" ->
         IF RawTok.kind = "r_paren" THEN Moved("Success", SelectorLocations)
         ELSE lookForStart(RawTok)
    [] OTHER -> Faulted("should not get here")

\* SelectorParser(Name, SymbolIndex)
SelectorParser(name) ==
  /\ Name = <<>>
  /\ Name' = name
  /\ UNCHANGED <<State, SelectorLocations, handled, fed, run, parserFault>>
  /\ UNCHANGED <<vars, fsVars, emitVars, scanVars>>

\* handleToken(RawTok); RawTok is the next token of the stream.
handleToken(RawTok) ==
  /\ Name # <<>>
  /\ parserFault = ""
  /\ fed < MaxTokens
  /\ LET next == stateForToken(RawTok, fed + 1)
     IN IF next.fault # ""
        THEN /\ parserFault' = next.fault
             /\ UNCHANGED <<State, SelectorLocations, handled, fed, run>>
        ELSE /\ SelectorLocations' = next.SelectorLocations
             /\ State' = IF next.State = "Success" THEN "None" ELSE next.State
             /\ handled' = (next.State = "Success")
             /\ fed' = fed + 1
             /\ run' = IF State = "None" THEN <<RawTok>> ELSE Append(run, RawTok)
             /\ UNCHANGED parserFault
  /\ UNCHANGED Name
  /\ UNCHANGED <<vars, fsVars, emitVars, scanVars>>

NextParser ==
  \/ \E name \in ParserNames : SelectorParser(name)
  \/ \E RawTok \in ParserTokens : handleToken(RawTok)

SpecParser == Init /\ [][NextParser]_parserVars

\* C28: for a name with at least one piece and any non-comment tokens, no
\* assertion of stateForToken fails: the parser is never left in Success
\* for the next call, and in ExpectingSelectorPiece fewer locations are
\* recorded than the name has pieces.
C28_AssertionsHold ==
  /\ parserFault = ""
  /\ State # "Success"
  /\ State = "ExpectingSelectorPiece" => Len(SelectorLocations) < Len(Name)

\* A second '@selector(' after a first expression was found.
C28_Witness ==
  /\ State = "ExpectingSelectorPiece"
  /\ fed = 8
  /\ Len(run) = 3
  /\ SelectorLocations = <<>>

\* '@' 'selector' '(' piece_1 ':' ... piece_n [':'] ')'
selectorRun(name, trailingColon) ==
  <<TokAt, Ident("selector"), TokLParen>>
  \o [k \in 1..(2 * Len(name) - 1) |->
        IF k % 2 = 1 THEN Ident(name[(k + 1) \div 2]) ELSE TokColon]
  \o (IF trailingColon THEN <<TokColon>> ELSE <<>>)
  \o <<TokRParen>>

\* The tokens handed over end with the given ones.
endsWith(tokens) ==
  /\ Len(tokens) <= Len(run)
  /\ SubSeq(run, Len(run) - Len(tokens) + 1, Len(run)) = tokens

\* C29: handleToken returns true only on the ')' that closes a run
\* '@' 'selector' '(' piece_1 ':' ... piece_n [':'] ')' whose pieces are
\* those of the name; then SelectorLocations holds the locations of the n
\* piece tokens, in order, and State is None again.
C29_SuccessOnlyOnSelector ==
  handled =>
    /\ State = "None"
    /\ Len(SelectorLocations) = Len(Name)
    /\ \E trailingColon \in BOOLEAN :
         LET tokens == selectorRun(Name, trailingColon)
         IN /\ endsWith(tokens)
            /\ \A i \in 1..Len(Name) :
                 SelectorLocations[i] = fed - Len(tokens) + 2 * i + 2

C29_Witness ==
  /\ handled
  /\ Name = <<"a", "b">>
  /\ SelectorLocations = <<4, 6>>
  /\ fed = 8

-----------------------------------------------------------------------------
(* findObjCSymbolSelectorPieces: given the tokens that start at the first  *)
(* piece of a selector occurrence, finds the remaining pieces.  One action *)
(* is one iteration of the loop.                                           *)

MaxScanLen == 5

ScanTokens ==
  {Ident("a"), Ident("b"), TokColon, TokLParen, TokRParen,
   Token("l_square", ""), Token("r_square", ""),
   Token("l_brace", ""), Token("r_brace", ""), Token("semi", "")}

ScanNames == {<<"a", "b">>, <<"a", "a">>, <<"a", "b", "a">>}

ScanKinds == {"MessageSend", "MethodDecl"}

\* A token of the list the function has not read yet: the list passed is any
\* list that agrees with Tokens on the tokens read.
Unread == Token("unread", "")

\* The loop condition, wrongly including the last token.
scanContinuesToLast(index, last) == index <= last

\* Index < Last
scanContinues(index, last) == index < last

\* The entry of findObjCSymbolSelectorPieces, up to the loop, for a list of
\* size tokens whose first one is the first piece of the name.
findObjCSymbolSelectorPieces(size, name, kind) ==
  /\ scanPc = "idle"
  /\ size > 0
  /\ Len(name) > 1
  /\ Tokens' = [i \in 1..size |-> IF i = 1 THEN Ident(name[1]) ELSE Unread]
  /\ SymbolName' = name
  /\ Kind' = kind
  /\ Pieces' = <<0>>
  /\ SquareCount' = 0
  /\ ParenCount' = 0
  /\ BraceCount' = 0
  /\ Index' = 2
  /\ scanPc' = "loop"
  /\ UNCHANGED <<scanResult, scanFault>>
  /\ UNCHANGED <<vars, fsVars, emitVars, parserVars>>

Return(result) ==
  /\ scanPc' = "done"
  /\ scanResult' = result
  /\ UNCHANGED <<Index, scanFault>>

Continue ==
  /\ Index' = Index + 1
  /\ UNCHANGED <<scanPc, scanResult, scanFault>>

OutOfRange(what) ==
  /\ scanPc' = "done"
  /\ scanFault' = what
  /\ UNCHANGED <<Index, scanResult, Tokens, Pieces, SquareCount, ParenCount,
                 BraceCount>>

\* Tokens[Index] is Tok and, where the list has one, Tokens[Index + 1] is
\* Peek.
ReadTokens(Tok, Peek) ==
  /\ Tokens[Index + 1] \in {Unread, Tok}
  /\ IF Index + 1 < Len(Tokens)
     THEN /\ Tokens[Index + 2] \in {Unread, Peek}
          /\ Tokens' = [Tokens EXCEPT ![Index + 1] = Tok, ![Index + 2] = Peek]
     ELSE Tokens' = [Tokens EXCEPT ![Index + 1] = Tok]

\* One iteration of the loop, or its end.
ScanStep(Tok, Peek) ==
  /\ scanPc = "loop"
  /\ LET Last == Len(Tokens) - 1
         NoScoping == SquareCount = 0 /\ BraceCount = 0 /\ ParenCount = 0
         stopDecl == /\ Kind = "MethodDecl"
                     /\ NoScoping
                     /\ Tok.kind \in {"semi", "minus", "plus"}
         Go == IF stopDecl THEN Return(FALSE) ELSE Continue
     IN IF ~scanContinues(Index, Last)
        THEN /\ Return(FALSE)
             /\ UNCHANGED <<Tokens, Pieces, SquareCount, ParenCount,
                            BraceCount>>
        ELSE IF ~(Index < Len(Tokens)) THEN OutOfRange("Tokens[Index]")
        ELSE IF NoScoping /\ Tok.kind = "raw_identifier"
                /\ ~(Index + 1 < Len(Tokens))
        THEN OutOfRange("Tokens[Index + 1]")
        ELSE IF NoScoping /\ Tok.kind = "raw_identifier"
                /\ Peek.kind = "colon"
                /\ ~(Len(Pieces) < Len(SymbolName))
        THEN OutOfRange("Name[Pieces.size()]")
        ELSE
          /\ ReadTokens(Tok, Peek)
          /\ IF NoScoping /\ Tok.kind = "raw_identifier"
                /\ Peek.kind = "colon"
                /\ Tok.text = SymbolName[Len(Pieces) + 1]
             THEN /\ Pieces' = Append(Pieces, Index)
                  /\ IF Len(Pieces) + 1 = Len(SymbolName)
                     THEN Return(TRUE) ELSE Go
                  /\ UNCHANGED <<SquareCount, ParenCount, BraceCount>>
             ELSE IF Tok.kind = "r_square"
             THEN IF Kind = "MessageSend" /\ SquareCount = 0
                     /\ BraceCount = 0
                  THEN /\ Return(FALSE)
                       /\ UNCHANGED <<Pieces, SquareCount, ParenCount,
                                      BraceCount>>
                  ELSE /\ SquareCount' = IF SquareCount # 0
                                         THEN SquareCount - 1
                                         ELSE SquareCount
                       /\ Go
                       /\ UNCHANGED <<Pieces, ParenCount, BraceCount>>
             ELSE IF Tok.kind = "l_square"
             THEN /\ SquareCount' = SquareCount + 1
                  /\ Go
                  /\ UNCHANGED <<Pieces, ParenCount, BraceCount>>
             ELSE IF Tok.kind = "l_paren"
             THEN /\ ParenCount' = ParenCount + 1
                  /\ Go
                  /\ UNCHANGED <<Pieces, SquareCount, BraceCount>>
             ELSE IF Tok.kind = "r_paren"
             THEN IF ParenCount = 0
                  THEN /\ Return(FALSE)
                       /\ UNCHANGED <<Pieces, SquareCount, ParenCount,
                                      BraceCount>>
                  ELSE /\ ParenCount' = ParenCount - 1
                       /\ Go
                       /\ UNCHANGED <<Pieces, SquareCount, BraceCount>>
             ELSE IF Tok.kind = "l_brace"
             THEN IF Kind = "MethodDecl" /\ BraceCount = 0
                     /\ ParenCount = 0
                  THEN /\ Return(FALSE)
                       /\ UNCHANGED <<Pieces, SquareCount, ParenCount,
                                      BraceCount>>
                  ELSE /\ BraceCount' = BraceCount + 1
                       /\ Go
                       /\ UNCHANGED <<Pieces, SquareCount, ParenCount>>
             ELSE IF Tok.kind = "r_brace"
             THEN IF BraceCount = 0
                  THEN /\ Return(FALSE)
                       /\ UNCHANGED <<Pieces, SquareCount, ParenCount,
                                      BraceCount>>
                  ELSE /\ BraceCount' = BraceCount - 1
                       /\ Go
                       /\ UNCHANGED <<Pieces, SquareCount, ParenCount>>
             ELSE /\ Go
                  /\ UNCHANGED <<Pieces, SquareCount, ParenCount,
                                 BraceCount>>
  /\ UNCHANGED <<SymbolName, Kind>>
  /\ UNCHANGED <<vars, fsVars, emitVars, parserVars>>

Scan == \E Tok \in ScanTokens, Peek \in ScanTokens : ScanStep(Tok, Peek)

NextScan ==
  \/ \E size \in 1..MaxScanLen, name \in ScanNames, kind \in ScanKinds :
       findObjCSymbolSelectorPieces(size, name, kind)
  \/ Scan

SpecScan == Init /\ [][NextScan]_scanVars

\* The loop is scheduled until the function returns.
SpecScanFair == SpecScan /\ WF_scanVars(Scan)

\* C30: for a non-empty token list whose first token is Name[0] and a name
\* of more than one piece the scan terminates, every index into Tokens and
\* Name is in range, no depth counter goes below zero, and true is returned
\* only with as many locations in Pieces as the name has pieces.
C30_ScanInRange ==
  /\ [](/\ scanFault = ""
        /\ SquareCount >= 0 /\ ParenCount >= 0 /\ BraceCount >= 0
        /\ scanPc = "loop" => Len(Pieces) < Len(SymbolName)
        /\ scanResult => Len(Pieces) = Len(SymbolName))
  /\ (scanPc = "loop" ~> scanPc = "done")

C30_Witness ==
  /\ scanPc = "done"
  /\ scanResult
  /\ Kind = "MethodDecl"
  /\ Pieces = <<0, 2>>
  /\ Tokens = <<Ident("a"), Unread, Ident("b"), TokColon, Unread>>

====
